---- MODULE Spec2Model ----
(***************************************************************************)
(* Model of the markdown-reader MCP server: the find operation             *)
(* (find.go), the read operation and the name resolver (read_handler.go)   *)
(* over a filesystem snapshot and the process-wide configuration           *)
(* (main.go).                                                              *)
(*                                                                         *)
(* Strings are sequences of one-character strings, so that the string      *)
(* functions of the code (ToLower, HasSuffix, Contains, EqualFold, Base)   *)
(* are computed character by character.                                    *)
(***************************************************************************)
EXTENDS Integers, Sequences, FiniteSets, TLC

VARIABLES
    files,      \* the regular files of the filesystem: a set of absolute paths
    dirs,       \* the directories of the filesystem: a set of absolute paths
    content,    \* content[f]: the bytes of regular file f
    config,     \* the process-wide Config (main.go)
    req,        \* the request handled last
    ret,        \* what findMarkdownFiles or findFirstFileByName returned in it
    resp,       \* the response to it
    fsLog,      \* the filesystem accesses made while handling it, in order
    pc,         \* where the process is: "main", "serving", "exit(0)", "exit(1)"
    cmdline,    \* the command line: positional arguments and flags
    home,       \* the home directory of the user, NoHome when it is not known
    configFile, \* the configuration file under the home directory
    startLog,   \* the filesystem accesses main made, in order
    calls,      \* calls[t]: the request goroutine t handles and its locals
    denied      \* the directories the process may neither list nor search

vars == <<files, dirs, content, config, req, ret, resp, fsLog,
          pc, cmdline, home, configFile, startLog, calls, denied>>

----------------------------------------------------------------------------
(* Strings *)

\* The characters of the model, in byte order (Go compares strings bytewise).
Chars ==
    << ".", "/", "A", "B", "D", "M", "_", "a", "b", "d", "e", "g", "i", "l",
       "m", "n", "o", "p", "q", "s", "t", "u", "x", "z" >>

CharCode(c) == CHOOSE i \in DOMAIN Chars : Chars[i] = c

\* unicode.ToLower on one character
ToLowerChar(c) ==
    CASE c = "A" -> "a"
      [] c = "B" -> "b"
      [] c = "D" -> "d"
      [] c = "M" -> "m"
      [] OTHER -> c

\* strings.ToLower
ToLower(s) == [i \in 1..Len(s) |-> ToLowerChar(s[i])]

\* strings.HasSuffix
HasSuffix(s, suffix) ==
    /\ Len(suffix) <= Len(s)
    /\ SubSeq(s, Len(s) - Len(suffix) + 1, Len(s)) = suffix

\* strings.HasPrefix
HasPrefix(s, prefix) ==
    /\ Len(prefix) <= Len(s)
    /\ SubSeq(s, 1, Len(prefix)) = prefix

\* strings.Contains
Contains(s, substr) ==
    \E i \in 1..(Len(s) - Len(substr) + 1) :
        SubSeq(s, i, i + Len(substr) - 1) = substr

\* strings.EqualFold (simple case folding: the letters of the model fold to
\* their lower case form)
EqualFold(s, t) == ToLower(s) = ToLower(t)

\* Bytewise s < t
RECURSIVE StrLess(_, _)
StrLess(s, t) ==
    IF t = <<>> THEN FALSE
    ELSE IF s = <<>> THEN TRUE
    ELSE IF s[1] # t[1] THEN CharCode(s[1]) < CharCode(t[1])
    ELSE StrLess(Tail(s), Tail(t))

Separator == "/"
DotMd == << ".", "m", "d" >>
DotDot == << ".", "." >>

\* Index of the last separator of path[1..i], 0 when it has none
RECURSIVE LastSepUpTo(_, _)
LastSepUpTo(path, i) ==
    IF i = 0 THEN 0
    ELSE IF path[i] = Separator THEN i
    ELSE LastSepUpTo(path, i - 1)

LastSep(path) == LastSepUpTo(path, Len(path))

\* filepath.Base, for the cleaned paths of the model
FilepathBase(path) == SubSeq(path, LastSep(path) + 1, Len(path))

\* filepath.Dir, for the cleaned paths of the model: k is the index of the
\* last separator
DirUpTo(path, k) ==
    IF k = 0 THEN << "." >>
    ELSE IF k = 1 THEN << Separator >>
    ELSE SubSeq(path, 1, k - 1)

FilepathDir(path) == DirUpTo(path, LastSep(path))

\* filepath.Join of a directory and a name
FilepathJoin(dir, name) ==
    IF dir = << Separator >> THEN dir \o name ELSE dir \o << Separator >> \o name

\* The working directory of the process
Cwd == << Separator >>

\* filepath.Abs: an absolute path is returned as it is, a relative one is
\* joined to the working directory
FilepathAbs(dir) ==
    IF HasPrefix(dir, << Separator >>) THEN dir ELSE FilepathJoin(Cwd, dir)

\* strings.TrimPrefix
TrimPrefix(s, prefix) ==
    IF HasPrefix(s, prefix) THEN SubSeq(s, Len(prefix) + 1, Len(s)) ELSE s

----------------------------------------------------------------------------
(* Regular expressions (package regexp), for the patterns of IgnoreDirs.   *)
(* A pattern is a sequence of tokens: a literal character, "\\." (an       *)
(* escaped dot), "." (any character), "+" (one or more of the token        *)
(* before), "^" and "$" (start and end of the text), "(" (a group).        *)

\* regexp.Compile succeeds: every group is closed (the patterns of the model
\* never close one) and a repetition has something to repeat
RegexpValid(p) ==
    /\ \A i \in 1..Len(p) : p[i] # "("
    /\ \A i \in 1..Len(p) : p[i] = "+" => (i > 1 /\ p[i - 1] \notin {"+", "^"})

AtomMatches(a, c) ==
    IF a = "." THEN TRUE
    ELSE IF a = "\\." THEN c = "."
    ELSE a = c

\* tokens i.. of p match s from position j on
RECURSIVE MatchHere(_, _, _, _)
MatchHere(p, i, s, j) ==
    IF i > Len(p) THEN TRUE
    ELSE IF p[i] = "^" THEN j = 1 /\ MatchHere(p, i + 1, s, j)
    ELSE IF p[i] = "$" THEN j = Len(s) + 1 /\ MatchHere(p, i + 1, s, j)
    ELSE IF i < Len(p) /\ p[i + 1] = "+"
         THEN \E k \in j..Len(s) :
                 /\ \A m \in j..k : AtomMatches(p[i], s[m])
                 /\ MatchHere(p, i + 2, s, k + 1)
    ELSE /\ j <= Len(s)
         /\ AtomMatches(p[i], s[j])
         /\ MatchHere(p, i + 1, s, j + 1)

\* regexp.MatchString: the pattern matches somewhere in s
RegexpMatchString(p, s) ==
    IF RegexpValid(p)
    THEN [err |-> FALSE, matched |-> \E j \in 1..(Len(s) + 1) : MatchHere(p, 1, s, j)]
    ELSE [err |-> TRUE, matched |-> FALSE]

\* shouldIgnoreDir, on what regexp.MatchString returned: an error is skipped
\* ("continue"), a match ends the loop
IsMatch(m) == ~m.err /\ m.matched

\* Variant of shouldIgnoreDirFrom that gives up at a pattern that does not
\* compile
RECURSIVE shouldIgnoreDirFromUntilInvalid(_, _)
shouldIgnoreDirFromUntilInvalid(dirName, i) ==
    IF i > Len(config.IgnoreDirs) THEN FALSE
    ELSE IF RegexpMatchString(config.IgnoreDirs[i], dirName).err THEN FALSE
    ELSE IF RegexpMatchString(config.IgnoreDirs[i], dirName).matched THEN TRUE
    ELSE shouldIgnoreDirFromUntilInvalid(dirName, i + 1)

\* find.go shouldIgnoreDir: the loop over config.IgnoreDirs, from pattern i
RECURSIVE shouldIgnoreDirFrom(_, _)
shouldIgnoreDirFrom(dirName, i) ==
    IF i > Len(config.IgnoreDirs) THEN FALSE
    ELSE IF IsMatch(RegexpMatchString(config.IgnoreDirs[i], dirName)) THEN TRUE
    ELSE shouldIgnoreDirFrom(dirName, i + 1)

shouldIgnoreDir(dirName) == shouldIgnoreDirFrom(dirName, 1)

----------------------------------------------------------------------------
(* The filesystem *)

\* os.Stat(path) does not report IsNotExist
Exists(path) == path \in files \cup dirs

\* d.IsDir()
IsDir(path) == path \in dirs

\* The fs.DirEntry of the entry at path
DirEntry(path) == [IsDir |-> IsDir(path), Name |-> FilepathBase(path)]

\* The names of N that are smaller than name
Below(N, name) == {n \in N : StrLess(n, name)}

\* The name of N that has half of the others below it
Middle(N) == CHOOSE name \in N : Cardinality(Below(N, name)) = Cardinality(N) \div 2

\* The names N in increasing order: the names below the middle one, the
\* middle one, the names above it
RECURSIVE SortNames(_)
SortAround(N, middle, below) ==
    SortNames(below) \o << middle >> \o SortNames(N \ (below \cup {middle}))

SortAt(N, middle) == SortAround(N, middle, Below(N, middle))

SortNames(N) == IF N = {} THEN <<>> ELSE SortAt(N, Middle(N))

\* The entries of dir with these names, in this order
EntriesOf(dir, names) == [i \in 1..Len(names) |-> FilepathJoin(dir, names[i])]

\* os.ReadDir: the entries of a directory, sorted by filename
ReadDir(dir) ==
    EntriesOf(dir, SortNames({FilepathBase(e) : e \in {x \in files \cup dirs :
                                                        FilepathDir(x) = dir}}))

\* os.ReadFile
ReadFile(path) ==
    IF path \in files THEN [err |-> FALSE, data |-> content[path]]
    ELSE [err |-> TRUE, data |-> <<>>]

----------------------------------------------------------------------------
(* filepath.WalkDir with the two callbacks of the code *)

\* Variant of collectFn that descends into every directory
collectFnDescendAll(path, d) ==
    IF ~d.IsDir /\ HasSuffix(ToLower(d.Name), DotMd)
    THEN [ret |-> "nil", hit |-> TRUE]
    ELSE [ret |-> "nil", hit |-> FALSE]

\* Variant of collectFn that tests the name of an entry and not its kind
collectFnAnyKind(path, d) ==
    IF d.IsDir /\ shouldIgnoreDir(d.Name)
    THEN [ret |-> "SkipDir", hit |-> FALSE]
    ELSE IF HasSuffix(ToLower(d.Name), DotMd)
    THEN [ret |-> "nil", hit |-> TRUE]
    ELSE [ret |-> "nil", hit |-> FALSE]

\* Variant of resolveFn that compares the names case-sensitively
resolveFnExactCase(path, d, filename) ==
    IF d.IsDir /\ shouldIgnoreDir(d.Name)
    THEN [ret |-> "SkipDir", hit |-> FALSE]
    ELSE IF ~d.IsDir /\ d.Name = filename
    THEN [ret |-> "SkipAll", hit |-> TRUE]
    ELSE [ret |-> "nil", hit |-> FALSE]

\* Variant of resolveFn that descends into every directory
resolveFnDescendAll(path, d, filename) ==
    IF ~d.IsDir /\ EqualFold(d.Name, filename)
    THEN [ret |-> "SkipAll", hit |-> TRUE]
    ELSE [ret |-> "nil", hit |-> FALSE]

\* Variant of resolveFn that tests the name of an entry and not its kind
resolveFnAnyKind(path, d, filename) ==
    IF d.IsDir /\ shouldIgnoreDir(d.Name)
    THEN [ret |-> "SkipDir", hit |-> FALSE]
    ELSE IF EqualFold(d.Name, filename)
    THEN [ret |-> "SkipAll", hit |-> TRUE]
    ELSE [ret |-> "nil", hit |-> FALSE]

\* The callback of collectMarkdownFilesFromDir (find.go) on the entry d at
\* path: what it returns, and whether it appended the entry to files
collectFn(path, d) ==
    IF d.IsDir /\ shouldIgnoreDir(d.Name)
    THEN [ret |-> "SkipDir", hit |-> FALSE]
    ELSE IF ~d.IsDir /\ HasSuffix(ToLower(d.Name), DotMd)
    THEN [ret |-> "nil", hit |-> TRUE]
    ELSE [ret |-> "nil", hit |-> FALSE]

\* The callback of findFirstFileByName (read_handler.go) on the entry d at
\* path: what it returns, and whether it assigned the entry to foundFile
resolveFn(path, d, filename) ==
    IF d.IsDir /\ shouldIgnoreDir(d.Name)
    THEN [ret |-> "SkipDir", hit |-> FALSE]
    ELSE IF ~d.IsDir /\ EqualFold(d.Name, filename)
    THEN [ret |-> "SkipAll", hit |-> TRUE]
    ELSE [ret |-> "nil", hit |-> FALSE]

\* ctx chooses the callback
CollectCtx == [mode |-> "collect", filename |-> <<>>]
ResolveCtx(filename) == [mode |-> "resolve", filename |-> filename]

WalkFn(ctx, path, d) ==
    IF ctx.mode = "collect" THEN collectFn(path, d) ELSE resolveFn(path, d, ctx.filename)

\* filepath.WalkDir: the callback is called on the entry first; SkipDir on a
\* directory skips its entries, SkipAll ends the walk; the entries of a
\* directory are walked in ReadDir's order. A walk yields the calls made
\* (visits) and whether SkipAll ended it (stop).
RECURSIVE walkDir(_, _)
RECURSIVE walkEntries(_, _, _, _)

\* The call of the callback on path, which returned r
Visit(path, r) ==
    << [path |-> path, ret |-> r.ret, hit |-> r.hit, err |-> FALSE] >>

\* The call of the callback on path with an error: both callbacks return nil
\* before they look at the entry ("Skip files that can't be accessed")
ErrVisit(path) ==
    << [path |-> path, ret |-> "nil", hit |-> FALSE, err |-> TRUE] >>

\* The walk first, then the walk second
WalkThen(first, second) ==
    [visits |-> first.visits \o second.visits, stop |-> second.stop]

\* The loop over all the entries of a directory
walkAll(entries, ctx) == walkEntries(entries, 1, Len(entries), ctx)

\* Variant of walkAfter in which an error ends the walk
walkAfterFailing(path, ctx, r) ==
    IF r.ret = "SkipAll" THEN [visits |-> Visit(path, r), stop |-> TRUE]
    ELSE IF r.ret = "SkipDir" \/ ~IsDir(path)
    THEN [visits |-> Visit(path, r), stop |-> FALSE]
    ELSE IF path \in denied
    THEN [visits |-> Visit(path, r) \o ErrVisit(path), stop |-> TRUE]
    ELSE WalkThen([visits |-> Visit(path, r), stop |-> FALSE],
                  walkAll(ReadDir(path), ctx))

\* Variant of walkAfter that goes on after SkipAll
walkAfterSkipAll(path, ctx, r) ==
    IF r.ret = "SkipDir" \/ ~IsDir(path)
    THEN [visits |-> Visit(path, r), stop |-> FALSE]
    ELSE IF path \in denied
    THEN [visits |-> Visit(path, r) \o ErrVisit(path), stop |-> FALSE]
    ELSE WalkThen([visits |-> Visit(path, r), stop |-> FALSE],
                  walkAll(ReadDir(path), ctx))

\* The walk of path once the callback has returned r on it: when the
\* directory cannot be listed, the callback is called on it once more, with
\* the error of os.ReadDir, and the walk goes on without its entries
walkAfter(path, ctx, r) ==
    IF r.ret = "SkipAll" THEN [visits |-> Visit(path, r), stop |-> TRUE]
    ELSE IF r.ret = "SkipDir" \/ ~IsDir(path)
    THEN [visits |-> Visit(path, r), stop |-> FALSE]
    ELSE IF path \in denied
    THEN [visits |-> Visit(path, r) \o ErrVisit(path), stop |-> FALSE]
    ELSE WalkThen([visits |-> Visit(path, r), stop |-> FALSE],
                  walkAll(ReadDir(path), ctx))

walkDir(path, ctx) == walkAfter(path, ctx, WalkFn(ctx, path, DirEntry(path)))

\* The entries lo..hi after the walk of the entries before them
walkRest(before, entries, lo, hi, ctx) ==
    IF before.stop THEN before
    ELSE WalkThen(before, walkEntries(entries, lo, hi, ctx))

\* The loop over the entries lo..hi of a directory, in order: the first half
\* of the range, then the second half
walkEntries(entries, lo, hi, ctx) ==
    IF lo > hi THEN [visits |-> <<>>, stop |-> FALSE]
    ELSE IF lo = hi THEN walkDir(entries[lo], ctx)
    ELSE walkRest(walkEntries(entries, lo, (lo + hi) \div 2, ctx),
                  entries, (lo + hi) \div 2 + 1, hi, ctx)

\* os.Lstat(path) fails: a directory above path may not be searched
LstatFails(path) ==
    \E i \in 2..Len(path) : path[i] = Separator /\ SubSeq(path, 1, i - 1) \in denied

\* Variant of WalkDir that calls the callback on the entries below the root
\* only
WalkDirBelowRoot(root, ctx) ==
    IF LstatFails(root) THEN ErrVisit(root)
    ELSE walkAll(ReadDir(root), ctx).visits

\* filepath.WalkDir(root, fn): when os.Lstat(root) fails, the callback is
\* called on the root with the error and the walk is over
WalkDir(root, ctx) ==
    IF LstatFails(root) THEN ErrVisit(root) ELSE walkDir(root, ctx).visits

\* The paths the callback hit, in the order of the walk
PathsOf(h) == [i \in 1..Len(h) |-> h[i].path]

HitsOf(visits) == PathsOf(SelectSeq(visits, LAMBDA v : v.hit))

\* The filesystem accesses of a walk
VisitLog(visits) ==
    [i \in 1..Len(visits) |->
        [op |-> IF visits[i].err THEN "visiterr" ELSE "visit",
         path |-> visits[i].path]]

----------------------------------------------------------------------------
(* find.go *)

DefaultPageSize == 50

\* The access os.Stat(absDir)
StatLog(absDir) == << [op |-> "stat", path |-> absDir] >>

\* What the walk with these visits collected, and the accesses it made
Collected(visits) == [files |-> HitsOf(visits), log |-> VisitLog(visits)]

\* collectMarkdownFilesFromDir, after filepath.Abs and os.Stat
collectWalk(absDir) ==
    IF ~Exists(absDir) THEN [files |-> <<>>, log |-> <<>>]
    ELSE Collected(WalkDir(absDir, CollectCtx))

\* c, with the accesses log made before it
AfterLog(log, c) == [c EXCEPT !.log = log \o c.log]

collectAbs(absDir) == AfterLog(StatLog(absDir), collectWalk(absDir))

\* collectMarkdownFilesFromDir: the files collected under one configured
\* directory, and the filesystem accesses made
collectMarkdownFilesFromDir(dir) == collectAbs(FilepathAbs(dir))

\* Variant of CollectedThen that leaves out of rest the files c has
CollectedThenOnce(c, rest) ==
    [files |-> c.files \o SelectSeq(rest.files, LAMBDA f :
                              \A i \in 1..Len(c.files) : c.files[i] # f),
     log |-> c.log \o rest.log]

\* Variant of CollectedThen that puts the files of the later directories
\* first
CollectedThenRestFirst(c, rest) ==
    [files |-> rest.files \o c.files, log |-> c.log \o rest.log]

\* The files and accesses of c, then those of rest
CollectedThen(c, rest) ==
    [files |-> c.files \o rest.files, log |-> c.log \o rest.log]

\* Variant of collectFrom that gives up at the first directory that does not
\* exist
RECURSIVE collectFromUntilMissing(_)
collectFromUntilMissing(i) ==
    IF i > Len(config.Directories) THEN [files |-> <<>>, log |-> <<>>]
    ELSE IF ~Exists(FilepathAbs(config.Directories[i]))
    THEN [files |-> <<>>, log |-> StatLog(FilepathAbs(config.Directories[i]))]
    ELSE CollectedThen(collectMarkdownFilesFromDir(config.Directories[i]),
                       collectFromUntilMissing(i + 1))

\* findMarkdownFiles, first loop: the files of config.Directories[i..]
RECURSIVE collectFrom(_)
collectFrom(i) ==
    IF i > Len(config.Directories) THEN [files |-> <<>>, log |-> <<>>]
    ELSE CollectedThen(collectMarkdownFilesFromDir(config.Directories[i]),
                       collectFrom(i + 1))

\* Variant of matchesQuery that matches the query against the whole path
matchesQueryOnPath(file, query) ==
    Contains(ToLower(file), ToLower(query))

\* Variant of effectivePageSize that clamps a request above the maximum to
\* the maximum
effectivePageSizeClamped(pageSize) ==
    IF pageSize <= 0 THEN DefaultPageSize
    ELSE IF pageSize > config.MaxPageSize THEN config.MaxPageSize
    ELSE pageSize

\* findMarkdownFiles, the test of the query filter on one file
matchesQuery(file, query) ==
    Contains(ToLower(FilepathBase(file)), ToLower(query))

\* findMarkdownFiles, "Filter by query if provided"
filterByQuery(allMarkdownFiles, query) ==
    IF query # <<>>
    THEN SelectSeq(allMarkdownFiles, LAMBDA file : matchesQuery(file, query))
    ELSE allMarkdownFiles

\* findMarkdownFiles, "Apply pagination": the page size used
effectivePageSize(pageSize) ==
    IF pageSize <= 0 \/ pageSize > config.MaxPageSize THEN DefaultPageSize
    ELSE pageSize

\* findMarkdownFiles, "Apply pagination"
paginate(filteredFiles, pageSize) ==
    IF Len(filteredFiles) > pageSize THEN SubSeq(filteredFiles, 1, pageSize)
    ELSE filteredFiles

\* findMarkdownFiles, once the files of all directories are collected in c
findAmong(c, query, pageSize) ==
    [ files |-> paginate(filterByQuery(c.files, query), effectivePageSize(pageSize)),
      err   |-> FALSE,
      log   |-> c.log ]

findMarkdownFiles(query, pageSize) == findAmong(collectFrom(1), query, pageSize)

\* A request argument is absent, a JSON string, a JSON number or a value of
\* another type
Absent == [kind |-> "absent", val |-> <<>>, num |-> 0]
Str(s) == [kind |-> "string", val |-> s, num |-> 0]
Num(n) == [kind |-> "number", val |-> <<>>, num |-> n]
Other  == [kind |-> "other", val |-> <<>>, num |-> 0]

extractQueryParam(arguments) ==
    IF arguments.query.kind = "string" THEN arguments.query.val ELSE <<>>

Digits == << "0", "1", "2", "3", "4", "5", "6", "7", "8", "9" >>
IsDigit(c) == \E i \in DOMAIN Digits : Digits[i] = c
DigitVal(c) == (CHOOSE i \in DOMAIN Digits : Digits[i] = c) - 1

RECURSIVE ParseUint(_, _)
ParseUint(s, acc) ==
    IF s = <<>> THEN acc ELSE ParseUint(Tail(s), 10 * acc + DigitVal(s[1]))

\* strconv.Atoi on the digits body, negated or not
AtoiDigits(body, negate) ==
    IF body = <<>> \/ \E i \in 1..Len(body) : ~IsDigit(body[i])
    THEN [err |-> TRUE, n |-> 0]
    ELSE [err |-> FALSE, n |-> ParseUint(body, 0) * (IF negate THEN -1 ELSE 1)]

\* strconv.Atoi: an optional sign and decimal digits
Atoi(s) ==
    IF s # <<>> /\ s[1] \in {"-", "+"} THEN AtoiDigits(Tail(s), s[1] = "-")
    ELSE AtoiDigits(s, FALSE)

\* extractPageSizeParam on a string whose conversion gave parsed
parsedOrDefault(parsed) == IF parsed.err THEN DefaultPageSize ELSE parsed.n

extractPageSize(p) ==
    IF p.kind = "string" THEN parsedOrDefault(Atoi(p.val))
    ELSE IF p.kind = "number" THEN p.num
    ELSE DefaultPageSize

extractPageSizeParam(arguments) == extractPageSize(arguments.page_size)

\* handleFindMarkdownFiles, "Create file info objects": the object of one file
fileInfo(file) ==
    [ path         |-> file,
      name         |-> FilepathBase(file),
      relativePath |-> TrimPrefix(file, FilepathDir(file) \o << Separator >>) ]

\* The response of a request: result is the object of a find response
NoResult == [directories |-> <<>>, files |-> <<>>, count |-> 0]
Response(isError, msg, result, text) ==
    [isError |-> isError, msg |-> msg, result |-> result, text |-> text]

\* handleFindMarkdownFiles, "Create file info objects"
fileInfos(found) == [i \in 1..Len(found) |-> fileInfo(found[i])]

\* Variant of findResult that counts the distinct file names
findResultCountingNames(infos) ==
    [directories |-> config.Directories, files |-> infos,
     count |-> Cardinality({ infos[i].name : i \in 1..Len(infos) })]

\* handleFindMarkdownFiles, the result object
findResult(infos) ==
    [directories |-> config.Directories, files |-> infos, count |-> Len(infos)]

\* handleFindMarkdownFiles, once findMarkdownFiles has returned found: the
\* request as parsed, what was returned, the response and the accesses
findHandled(query, pageSize, found) ==
    [ req  |-> [op |-> "find", query |-> query, pageSize |-> pageSize,
                filename |-> <<>>],
      ret  |-> [files |-> found.files, found |-> <<>>, err |-> found.err],
      resp |-> IF found.err
               THEN Response(TRUE, "failed to find markdown files", NoResult, <<>>)
               ELSE Response(FALSE, "", findResult(fileInfos(found.files)), <<>>),
      log  |-> found.log ]

findParsed(query, pageSize) ==
    findHandled(query, pageSize, findMarkdownFiles(query, pageSize))

handleFindMarkdownFiles(arguments) ==
    findParsed(extractQueryParam(arguments), extractPageSizeParam(arguments))

----------------------------------------------------------------------------
(* read_handler.go *)

\* Variant of normalizeFilename that leaves the name as it was given
normalizeFilenameAsGiven(filename) == filename

\* Variant of normalizeFilename that tests the extension case-sensitively
normalizeFilenameExactCase(filename) ==
    IF ~HasSuffix(filename, DotMd) THEN filename \o DotMd ELSE filename

\* Variant of normalizeFilename that leaves the name as it is once a request
\* has failed
normalizeFilenameUntilError(filename) ==
    IF resp.isError \/ HasSuffix(ToLower(filename), DotMd) THEN filename
    ELSE filename \o DotMd

\* Variant of resolveFrom that searches every directory and keeps the match
\* of the last one
RECURSIVE resolveFromEvery(_, _)
resolveFromEvery(i, filename) ==
    IF i > Len(config.Directories)
    THEN [found |-> <<>>, err |-> TRUE, log |-> <<>>]
    ELSE LET absDir == FilepathAbs(config.Directories[i])
             rest   == resolveFromEvery(i + 1, filename)
         IN  IF ~Exists(absDir)
             THEN [rest EXCEPT !.log = StatLog(absDir) \o rest.log]
             ELSE LET v    == WalkDir(absDir, ResolveCtx(filename))
                      hits == HitsOf(v)
                  IN  IF hits # <<>> /\ rest.err
                      THEN [ found |-> hits[Len(hits)], err |-> FALSE,
                             log   |-> StatLog(absDir) \o VisitLog(v) \o rest.log ]
                      ELSE [rest EXCEPT !.log = StatLog(absDir) \o VisitLog(v) \o rest.log]

\* Variant of isJustFilename that accepts every relative path
isJustFilenameRelative(filename) == ~HasPrefix(filename, << Separator >>)

\* findFirstFileByName, "Ensure the filename has .md extension"
normalizeFilename(filename) ==
    IF ~HasSuffix(ToLower(filename), DotMd) THEN filename \o DotMd ELSE filename

\* findFirstFileByName, the loop over config.Directories from directory i, for
\* the normalized filename
RECURSIVE resolveFrom(_, _)

\* The walk of directory i hit these files, log are the accesses made: a hit
\* is returned, without one the loop goes on
resolveHits(i, filename, hits, log) ==
    IF hits # <<>> THEN [found |-> hits[Len(hits)], err |-> FALSE, log |-> log]
    ELSE AfterLog(log, resolveFrom(i + 1, filename))

resolveWalked(i, filename, absDir, visits) ==
    resolveHits(i, filename, HitsOf(visits), StatLog(absDir) \o VisitLog(visits))

\* Directory i, after filepath.Abs and os.Stat
resolveAbs(i, filename, absDir) ==
    IF ~Exists(absDir) THEN AfterLog(StatLog(absDir), resolveFrom(i + 1, filename))
    ELSE resolveWalked(i, filename, absDir, WalkDir(absDir, ResolveCtx(filename)))

resolveFrom(i, filename) ==
    IF i > Len(config.Directories)
    THEN [found |-> <<>>, err |-> TRUE, log |-> <<>>]
    ELSE resolveAbs(i, filename, FilepathAbs(config.Directories[i]))

\* Variant of findFirstFileByName that rejects a name with ".." or a
\* separator before anything else
findFirstFileByNameGuarded(filename) ==
    IF Contains(filename, DotDot) \/ Contains(filename, << Separator >>)
    THEN [found |-> <<>>, err |-> TRUE, log |-> <<>>]
    ELSE resolveFrom(1, normalizeFilename(filename))

findFirstFileByName(filename) == resolveFrom(1, normalizeFilename(filename))

\* Variant of isTraversal that rejects a ".." path element only
isTraversalElement(filename) ==
    \/ filename = DotDot
    \/ HasPrefix(filename, DotDot \o << Separator >>)
    \/ HasSuffix(filename, << Separator >> \o DotDot)
    \/ Contains(filename, << Separator >> \o DotDot \o << Separator >>)

\* "Security check: ensure the file path doesn't contain directory traversal"
isTraversal(filename) == Contains(filename, DotDot)

\* "Check if this is just a filename (no path separators)"
isJustFilename(filename) == ~Contains(filename, << Separator >>)

\* What a read handler returns when it fails with msg after the accesses log
ReadError(found, err, msg, log) ==
    [ ret  |-> [files |-> <<>>, found |-> found, err |-> err],
      resp |-> Response(TRUE, msg, NoResult, <<>>),
      log  |-> log ]

\* The read handlers once os.ReadFile(found) has returned c
readDone(found, c, log) ==
    IF c.err THEN ReadError(found, FALSE, "failed to read file", log)
    ELSE [ ret  |-> [files |-> <<>>, found |-> found, err |-> FALSE],
           resp |-> Response(FALSE, "", NoResult, c.data),
           log  |-> log ]

\* The read handlers once findFirstFileByName has returned r
readResolved(r) ==
    IF r.err
    THEN ReadError(r.found, TRUE, "error searching for file: file not found", r.log)
    ELSE IF r.found = <<>>
    THEN ReadError(r.found, FALSE, "file not found", r.log)
    ELSE IF ~HasSuffix(ToLower(r.found), DotMd)
    THEN ReadError(r.found, FALSE, "file is not a markdown file", r.log)
    ELSE readDone(r.found, ReadFile(r.found),
                  Append(r.log, [op |-> "readfile", path |-> r.found]))

\* The part the two read handlers share, from the security check on: the
\* result of the resolver, the response and the filesystem accesses
readByFilename(filename) ==
    IF isTraversal(filename)
    THEN ReadError(<<>>, FALSE, "directory traversal not allowed", <<>>)
    ELSE IF ~isJustFilename(filename)
    THEN ReadError(<<>>, FALSE, "filename looks like a path", <<>>)
    ELSE readResolved(findFirstFileByName(filename))

\* What a handler of operation op returns for filename when the shared part
\* returned r
ReadHandled(op, filename, r) ==
    [ req  |-> [op |-> op, query |-> <<>>, pageSize |-> 0, filename |-> filename],
      ret  |-> r.ret, resp |-> r.resp, log |-> r.log ]

\* handleReadMarkdownFile (the tool)
handleReadMarkdownFile(arguments) ==
    IF arguments.filename.kind # "string"
    THEN ReadHandled("read", <<>>,
                     ReadError(<<>>, FALSE, "required argument not found", <<>>))
    ELSE ReadHandled("read", arguments.filename.val,
                     readByFilename(arguments.filename.val))

FileScheme == << "f", "i", "l", "e", ":", "/", "/" >>
MarkdownScheme == << "m", "a", "r", "k", "d", "o", "w", "n", ":", "/", "/" >>

\* handleReadMarkdownFileResource, the filename: the template parameter or,
\* without one, what follows file:// in the URI
resourceFilename(fromArg, uri) ==
    IF fromArg = <<>> /\ HasPrefix(uri, FileScheme)
    THEN TrimPrefix(uri, FileScheme) ELSE fromArg

resourceNamed(filename) ==
    IF filename = <<>>
    THEN ReadHandled("resource", filename,
                     ReadError(<<>>, FALSE, "missing required parameter: filename", <<>>))
    ELSE ReadHandled("resource", filename, readByFilename(filename))

\* handleReadMarkdownFileResource
handleReadMarkdownFileResource(arguments, uri) ==
    resourceNamed(resourceFilename(IF arguments.filename.kind = "string"
                                   THEN arguments.filename.val ELSE <<>>, uri))

----------------------------------------------------------------------------
(* main.go: the configuration *)

DefaultMaxPageSize == 500

\* main / loadConfigFromFile: the default ignore patterns `\.git$` and
\* `node_modules$`
DefaultIgnoreDirs ==
    << << "\\.", "g", "i", "t", "$" >>,
       << "n", "o", "d", "e", "_", "m", "o", "d", "u", "l", "e", "s", "$" >> >>

\* The zero value of Config, which the package variable config holds until
\* main assigns it
ZeroConfig ==
    [Directories |-> <<>>, MaxPageSize |-> 0, DebugLogging |-> FALSE,
     IgnoreDirs |-> <<>>]

\* os.UserHomeDir fails when the home directory is not known
NoHome == <<>>

Tilde == "~"

\* Variant of expandTilde that expands every path starting with a tilde
expandTildeAnyUser(path) ==
    IF ~HasPrefix(path, << Tilde >>) THEN [path |-> path, err |-> FALSE]
    ELSE IF home = NoHome THEN [path |-> <<>>, err |-> TRUE]
    ELSE IF path = << Tilde >> THEN [path |-> home, err |-> FALSE]
    ELSE [path |-> FilepathJoin(home, SubSeq(path, 2, Len(path))), err |-> FALSE]

\* expandTilde
expandTilde(path) ==
    IF ~HasPrefix(path, << Tilde >>) THEN [path |-> path, err |-> FALSE]
    ELSE IF home = NoHome THEN [path |-> <<>>, err |-> TRUE]
    ELSE IF path = << Tilde >> THEN [path |-> home, err |-> FALSE]
    ELSE IF HasPrefix(path, << Tilde, Separator >>)
    THEN [path |-> FilepathJoin(home, SubSeq(path, 3, Len(path))), err |-> FALSE]
    ELSE [path |-> path, err |-> FALSE]

\* The path of the configuration file below the home directory
ConfigPath ==
    FilepathJoin(FilepathJoin(FilepathJoin(home,
        << ".", "c", "o", "n", "f", "i", "g" >>),
        << "m", "a", "r", "k", "d", "o", "w", "n", "-",
           "r", "e", "a", "d", "e", "r", "-", "m", "c", "p" >>),
        << "m", "a", "r", "k", "d", "o", "w", "n", "-",
           "r", "e", "a", "d", "e", "r", "-", "m", "c", "p", ".", "j", "s", "o", "n" >>)

\* JSON values of the configuration file next to Absent, Num and Str: an
\* array of strings and a boolean
Arr(items) == [kind |-> "array", val |-> items, num |-> 0]
Bool(b) == [kind |-> "bool", val |-> <<>>, num |-> IF b THEN 1 ELSE 0]

\* json.Unmarshal into a Config: a key the document lacks leaves the zero
\* value of its field
unmarshalConfig(doc) ==
    [Directories  |-> IF doc.directories.kind = "array"
                      THEN doc.directories.val ELSE <<>>,
     MaxPageSize  |-> IF doc.max_page_size.kind = "number"
                      THEN doc.max_page_size.num ELSE 0,
     DebugLogging |-> doc.debug_logging.kind = "bool" /\ doc.debug_logging.num = 1,
     IgnoreDirs   |-> IF doc.ignore_dirs.kind = "array"
                      THEN doc.ignore_dirs.val ELSE <<>>]

\* loadConfigFromFile, the loop over cfg.Directories
expandedDirectories(directories) ==
    [i \in 1..Len(directories) |-> expandTilde(directories[i])]

\* loadConfigFromFile, from the loop on: expanded holds what expandTilde
\* returned for each directory
configLoaded(cfg, expanded, log) ==
    IF \E i \in 1..Len(expanded) : expanded[i].err
    THEN [cfg |-> ZeroConfig, err |-> TRUE, log |-> log]
    ELSE [cfg |-> [Directories  |-> [i \in 1..Len(expanded) |-> expanded[i].path],
                   MaxPageSize  |-> IF cfg.MaxPageSize = 0
                                    THEN DefaultMaxPageSize ELSE cfg.MaxPageSize,
                   DebugLogging |-> cfg.DebugLogging,
                   IgnoreDirs   |-> IF Len(cfg.IgnoreDirs) = 0
                                    THEN DefaultIgnoreDirs ELSE cfg.IgnoreDirs],
          err |-> FALSE, log |-> log]

configUnmarshalled(cfg, log) ==
    configLoaded(cfg, expandedDirectories(cfg.Directories), log)

\* loadConfigFromFile
loadConfigFromFile ==
    IF home = NoHome THEN [cfg |-> ZeroConfig, err |-> TRUE, log |-> <<>>]
    ELSE IF configFile.state \in {"missing", "unreadable", "malformed"}
    THEN [cfg |-> ZeroConfig, err |-> TRUE,
          log |-> << [op |-> "readfile", path |-> ConfigPath] >>]
    ELSE configUnmarshalled(unmarshalConfig(configFile.doc),
                            << [op |-> "readfile", path |-> ConfigPath] >>)

\* Variant of mainFromArgs that takes from the configuration file what the
\* command line does not give
mainFromArgsOverFile(args) ==
    IF loadConfigFromFile.err
    THEN [pc |-> "serving",
          config |-> [Directories  |-> args,
                      MaxPageSize  |-> DefaultMaxPageSize,
                      DebugLogging |-> FALSE,
                      IgnoreDirs   |-> DefaultIgnoreDirs],
          log |-> loadConfigFromFile.log]
    ELSE [pc |-> "serving",
          config |-> [loadConfigFromFile.cfg EXCEPT !.Directories = args],
          log |-> loadConfigFromFile.log]

\* main, with positional arguments
mainFromArgs(args) ==
    [pc |-> "serving",
     config |-> [Directories  |-> args,
                 MaxPageSize  |-> DefaultMaxPageSize,
                 DebugLogging |-> FALSE,
                 IgnoreDirs   |-> DefaultIgnoreDirs],
     log |-> <<>>]

\* Variant of mainFromFile that serves with the zero configuration when the
\* file could not be loaded
mainFromFileAnyway(l) ==
    [pc |-> "serving", config |-> l.cfg, log |-> l.log]

\* main, without positional arguments: l is what loadConfigFromFile returned
mainFromFile(l) ==
    IF l.err THEN [pc |-> "exit(1)", config |-> ZeroConfig, log |-> l.log]
    ELSE [pc |-> "serving", config |-> l.cfg, log |-> l.log]

\* main, up to the creation of the server
main ==
    IF cmdline.help
    THEN [pc |-> "exit(0)", config |-> ZeroConfig, log |-> <<>>]
    ELSE IF cmdline.debug /\ cmdline.quiet
    THEN [pc |-> "exit(1)", config |-> ZeroConfig, log |-> <<>>]
    ELSE IF Len(cmdline.args) = 0 THEN mainFromFile(loadConfigFromFile)
    ELSE mainFromArgs(cmdline.args)

\* configureLogger: whether the logger writes debug messages
debugLogging ==
    IF cmdline.debug THEN TRUE
    ELSE IF cmdline.quiet THEN FALSE
    ELSE config.DebugLogging

----------------------------------------------------------------------------
(* The filesystems, configurations and requests of the model *)

MaxFiles == 2
MaxDirs == 2

NameAMd == << "a", ".", "m", "d" >>
NameUpperAMd == << "A", ".", "M", "D" >>
NameAbMd == << "a", "b", ".", "m", "d" >>
NameBTxt == << "b", ".", "t", "x", "t" >>
NameSub == << "s", "u", "b" >>
NameGit == << ".", "g", "i", "t" >>
NameNodeModules == << "n", "o", "d", "e", "_", "m", "o", "d", "u", "l", "e", "s" >>
NameXMd == << "x", ".", "m", "d" >>

RootP == << "/", "p" >>
RootQ == << "/", "q" >>
PSub == FilepathJoin(RootP, NameSub)
PGitSub == FilepathJoin(FilepathJoin(RootP, NameGit), NameSub)

\* The regular files a filesystem of the model may hold
Catalogue ==
    { FilepathJoin(RootP, NameAMd),
      FilepathJoin(RootP, NameUpperAMd),
      FilepathJoin(RootP, NameBTxt),
      FilepathJoin(PSub, NameAMd),
      FilepathJoin(PSub, NameAbMd),
      FilepathJoin(PGitSub, NameAbMd),
      FilepathJoin(FilepathJoin(RootP, NameXMd), NameAbMd),
      FilepathJoin(RootQ, NameAMd),
      FilepathJoin(FilepathJoin(RootQ, NameNodeModules), NameAbMd) }

\* The directories above the files F, and the directory /p, which always
\* exists
DirsAbove(F) ==
    UNION { { SubSeq(f, 1, i - 1) : i \in {j \in 2..Len(f) : f[j] = Separator} } :
            f \in F } \cup {RootP}

\* The bytes of the file at path f: no two files of the model hold the same
FileBytes(f) == << "#" >> \o f

Filesystems == {F \in SUBSET Catalogue : Cardinality(F) <= MaxFiles}

\* The directories a configuration may name: /p, q (relative to the working
\* directory) and /p/.git/sub; the last two exist only when they hold a file
RootChoices == {RootP, << "q" >>, PGitSub}

RECURSIVE InjectiveSeqs(_, _)
InjectiveSeqs(S, n) ==
    IF n = 0 THEN {<<>>}
    ELSE LET shorter == InjectiveSeqs(S, n - 1)
         IN  shorter \cup
             { Append(q, x) : q \in {t \in shorter : Len(t) = n - 1},
                              x \in S }

DirectoryLists ==
    { d \in InjectiveSeqs(RootChoices, MaxDirs) :
        /\ d # <<>>
        /\ \A i, j \in 1..Len(d) : i # j => d[i] # d[j] }

\* Ignore patterns other than the defaults: an invalid pattern, then `^x`
\* and `q$`
CustomIgnoreDirs == << << "(" >>, << "^", "x" >>, << "q", "$" >> >>

IgnoreChoices == {DefaultIgnoreDirs, CustomIgnoreDirs}

Configs ==
    [ Directories  : DirectoryLists,
      MaxPageSize  : {DefaultMaxPageSize},
      DebugLogging : {FALSE},
      IgnoreDirs   : IgnoreChoices ]

\* The home directory of the model is /p
HomeDir == RootP

\* The goroutines that handle requests when the transport serves several
\* clients
Threads == {1, 2}

\* A goroutine that handles no request
NoCall ==
    [pc |-> "idle", op |-> "none", arg |-> <<>>, query |-> <<>>, pageSize |-> 0,
     filename |-> <<>>, i |-> 0, files |-> <<>>, found |-> <<>>, mixed |-> FALSE,
     log |-> <<>>,
     resp |-> Response(FALSE, "", NoResult, <<>>)]

\* The process serves with the configuration config, which it loaded from
\* the configuration file
Running ==
    /\ pc = "serving"
    /\ cmdline = [args |-> <<>>, help |-> FALSE, debug |-> FALSE, quiet |-> FALSE]
    /\ home = HomeDir
    /\ configFile = [state |-> "json",
                     doc |-> [directories   |-> Arr(config.Directories),
                              max_page_size |-> Num(config.MaxPageSize),
                              debug_logging |-> Absent,
                              ignore_dirs   |-> Arr(config.IgnoreDirs)]]
    /\ startLog = << [op |-> "readfile", path |-> ConfigPath] >>
    /\ calls = [t \in Threads |-> NoCall]

NoRequest == [op |-> "none", query |-> <<>>, pageSize |-> 0, filename |-> <<>>]
NoReturn == [files |-> <<>>, found |-> <<>>, err |-> FALSE]

\* The server has started: the configuration is loaded and no request has
\* been handled
Init ==
    /\ files \in Filesystems
    /\ dirs = DirsAbove(files)
    /\ denied = {}
    /\ content = [f \in files |-> FileBytes(f)]
    /\ config \in Configs
    /\ Running
    /\ req = NoRequest
    /\ ret = NoReturn
    /\ resp = Response(FALSE, "", NoResult, <<>>)
    /\ fsLog = <<>>

QueryArgs ==
    { Absent, Str(<< "B" >>), Str(<< "m", "d" >>), Str(NameSub) }

PageSizeArgs == { Absent, Str(<< "1" >>) }

FilenameArgs ==
    { Str(<< "a" >>), Str(NameAMd), Str(<< "a", ".", "M", "D" >>),
      Str(<< "a", "b" >>), Str(<< "x" >>), Str(NameBTxt),
      Str(<< ".", ".", "/", "a" >>), Str(<< "p", "/", "a", ".", "m", "d" >>) }

\* The server takes a request when it is handling none
Idle == pc = "serving" /\ req.op = "none"

\* Variant of Handled that drops from the configuration the directories
\* that do not exist
HandledDroppingMissing(h) ==
    /\ req' = h.req
    /\ ret' = h.ret
    /\ resp' = h.resp
    /\ fsLog' = h.log
    /\ config' = [config EXCEPT !.Directories =
                      SelectSeq(config.Directories,
                                LAMBDA d : Exists(FilepathAbs(d)))]
    /\ UNCHANGED <<files, dirs, content, pc, cmdline, home, configFile, startLog,
                   calls, denied>>

Handled(h) ==
    /\ req' = h.req
    /\ ret' = h.ret
    /\ resp' = h.resp
    /\ fsLog' = h.log
    /\ UNCHANGED <<files, dirs, content, config,
                   pc, cmdline, home, configFile, startLog, calls, denied>>

\* A find_markdown_files tool call
Find ==
    Idle /\ \E q \in QueryArgs, p \in PageSizeArgs :
        Handled(handleFindMarkdownFiles([query |-> q, page_size |-> p]))

\* A read_markdown_file tool call
ReadTool ==
    Idle /\ \E f \in FilenameArgs \cup {Absent} :
        Handled(handleReadMarkdownFile([filename |-> f]))

\* The resource reads: with the template parameter, with a file:// URI alone,
\* and with a URI that gives no filename
ResourceRequests ==
    { [arguments |-> [filename |-> f], uri |-> MarkdownScheme \o f.val] :
        f \in FilenameArgs }
    \cup { [arguments |-> [filename |-> Absent], uri |-> FileScheme \o f.val] :
             f \in FilenameArgs }
    \cup { [arguments |-> [filename |-> Absent], uri |-> MarkdownScheme \o NameAMd] }

\* A read of the resource template
ReadResource ==
    Idle /\ \E r \in ResourceRequests :
        Handled(handleReadMarkdownFileResource(r.arguments, r.uri))

\* The response is written to the transport and the server waits for the
\* next request
Respond ==
    /\ req.op # "none"
    /\ req' = NoRequest
    /\ ret' = NoReturn
    /\ resp' = Response(FALSE, "", NoResult, <<>>)
    /\ fsLog' = <<>>
    /\ UNCHANGED <<files, dirs, content, config,
                   pc, cmdline, home, configFile, startLog, calls, denied>>

Next == Find \/ ReadTool \/ ReadResource \/ Respond

Spec == Init /\ [][Next]_vars

----------------------------------------------------------------------------
(* Pagination over a directory of many files: /p holds the first n of the  *)
(* two-letter names aa.md, ab.md, ad.md, ...                               *)

ExtraFiles == 2

BulkLetters == << "a", "b", "d", "e", "g", "i", "l", "m" >>

BulkName(k) ==
    << BulkLetters[(k \div 8) + 1], BulkLetters[(k % 8) + 1] >> \o DotMd

BulkFiles(n) == { FilepathJoin(RootP, BulkName(k)) : k \in 0..(n - 1) }

BulkCounts == (0..3) \cup ((DefaultPageSize - 1)..(DefaultPageSize + ExtraFiles))

BulkConfigs ==
    [ Directories  : {<< RootP >>},
      MaxPageSize  : {1, 2, DefaultPageSize + 1, DefaultMaxPageSize},
      DebugLogging : {FALSE},
      IgnoreDirs   : {DefaultIgnoreDirs} ]

InitPage ==
    /\ files \in {BulkFiles(n) : n \in BulkCounts}
    /\ dirs = {RootP}
    /\ denied = {}
    /\ content = [f \in files |-> FileBytes(f)]
    /\ config \in BulkConfigs
    /\ Running
    /\ req = NoRequest
    /\ ret = NoReturn
    /\ resp = Response(FALSE, "", NoResult, <<>>)
    /\ fsLog = <<>>

BulkPageSizeArgs ==
    { Absent, Other, Str(<< "x" >>), Str(<< "-", "1" >>), Str(<< "0" >>),
      Str(<< "1" >>), Num(1), Str(<< "2" >>), Str(<< "3" >>), Str(<< "4", "9" >>),
      Num(50), Str(<< "5", "1" >>), Str(<< "5", "2" >>), Str(<< "5", "0", "1" >>) }

BulkQueryArgs == { Absent, Other, Str(<<>>), Str(<< "B" >>) }

FindPage ==
    Idle /\ \E q \in BulkQueryArgs, p \in BulkPageSizeArgs :
        Handled(handleFindMarkdownFiles([query |-> q, page_size |-> p]))

NextPage == FindPage \/ Respond

SpecPage == InitPage /\ [][NextPage]_vars

----------------------------------------------------------------------------
(* findFirstFileByName called on its own, as the tests of the package call  *)
(* it, next to reads through the tool                                       *)

\* The names findFirstFileByName is called with
ResolverArgs ==
    { << "a" >>, NameAMd, << "a", "b" >>, << "x" >>,
      << ".", "." >>, << ".", ".", "/", "a" >>,
      << "p", "/", "a", ".", "m", "d" >>, << "s", "u", "b", "/", "a" >> }

\* What a call of findFirstFileByName(filename) that returned r leaves
ResolveReturned(filename, r) ==
    [ req  |-> [op |-> "resolve", query |-> <<>>, pageSize |-> 0,
                filename |-> filename],
      ret  |-> [files |-> <<>>, found |-> r.found, err |-> r.err],
      resp |-> Response(r.err, "", NoResult, <<>>),
      log  |-> r.log ]

resolveCalled(filename) == ResolveReturned(filename, findFirstFileByName(filename))

\* A call of findFirstFileByName
Resolve == Idle /\ \E f \in ResolverArgs : Handled(resolveCalled(f))

NextResolve == Resolve \/ ReadTool \/ Respond

SpecResolve == Init /\ [][NextResolve]_vars

----------------------------------------------------------------------------
(* The start of the process: main runs with a command line, a home         *)
(* directory and a configuration file, and then the server serves          *)

\* The positional arguments of the model: none, /p, and q before /p
ArgLists == { <<>>, << RootP >>, << << "q" >>, RootP >> }

Cmdlines ==
    [args : ArgLists, help : BOOLEAN, debug : BOOLEAN, quiet : BOOLEAN]

\* The directories arrays of the configuration files: the home directory,
\* a directory below it before /p, and the name of another user's home
\* before a relative path
DirectoriesDocs ==
    { Arr(<< << Tilde >> >>),
      Arr(<< << Tilde, Separator >> \o NameSub, RootP >>),
      Arr(<< << Tilde, "x" >>, << "q" >> >>) }

ConfigDocs ==
    [directories   : DirectoriesDocs \cup {Absent},
     max_page_size : {Absent, Num(0), Num(2)},
     debug_logging : {Absent, Bool(TRUE)},
     ignore_dirs   : {Absent, Arr(<<>>), Arr(CustomIgnoreDirs)}]

NoDoc ==
    [directories |-> Absent, max_page_size |-> Absent,
     debug_logging |-> Absent, ignore_dirs |-> Absent]

ConfigFiles ==
    { [state |-> st, doc |-> NoDoc] : st \in {"missing", "unreadable", "malformed"} }
    \cup { [state |-> "json", doc |-> d] : d \in ConfigDocs }

StartFilesystems ==
    { { FilepathJoin(RootP, NameAMd) },
      { FilepathJoin(RootP, NameAMd), FilepathJoin(PSub, NameAbMd) } }

\* The process is started
InitStart ==
    /\ files \in StartFilesystems
    /\ dirs = DirsAbove(files)
    /\ denied = {}
    /\ content = [f \in files |-> FileBytes(f)]
    /\ config = ZeroConfig
    /\ pc = "main"
    /\ cmdline \in Cmdlines
    /\ home \in {HomeDir, NoHome}
    /\ configFile \in ConfigFiles
    /\ startLog = <<>>
    /\ calls = [t \in Threads |-> NoCall]
    /\ req = NoRequest
    /\ ret = NoReturn
    /\ resp = Response(FALSE, "", NoResult, <<>>)
    /\ fsLog = <<>>

Started(m) ==
    /\ pc' = m.pc
    /\ config' = m.config
    /\ startLog' = m.log
    /\ UNCHANGED <<files, dirs, content, req, ret, resp, fsLog,
                   cmdline, home, configFile, calls, denied>>

\* main runs up to the creation of the server, or exits
Main == pc = "main" /\ Started(main)

StartQueryArgs == { Absent, Str(NameSub) }

\* A find_markdown_files tool call
FindStarted ==
    Idle /\ \E q \in StartQueryArgs :
        Handled(handleFindMarkdownFiles([query |-> q, page_size |-> Absent]))

StartFilenameArgs == { Str(<< "a" >>), Str(<< "a", "b" >>) }

\* A read_markdown_file tool call
ReadStarted ==
    Idle /\ \E f \in StartFilenameArgs :
        Handled(handleReadMarkdownFile([filename |-> f]))

NextStart == Main \/ FindStarted \/ ReadStarted \/ Respond

SpecStart == InitStart /\ [][NextStart]_vars

----------------------------------------------------------------------------
(* Requests handled concurrently (the SSE transport runs each request in   *)
(* its own goroutine). A handler runs in steps: it parses the request,     *)
(* scans one configured directory per step, and builds its response. Its   *)
(* variables (files, foundFile, the loop index) are locals of the call;    *)
(* config and the filesystem are what the goroutines share.                *)

ConcFilesystems ==
    { { FilepathJoin(RootP, NameAMd), FilepathJoin(RootQ, NameAMd) },
      { FilepathJoin(RootP, NameUpperAMd), FilepathJoin(PSub, NameAbMd) } }

ConcConfigs ==
    [ Directories  : { << RootP >>, << << "q" >>, RootP >>, << PSub, RootP >> },
      MaxPageSize  : {DefaultMaxPageSize},
      DebugLogging : {FALSE},
      IgnoreDirs   : {DefaultIgnoreDirs} ]

InitConc ==
    /\ files \in ConcFilesystems
    /\ dirs = DirsAbove(files)
    /\ denied = {}
    /\ content = [f \in files |-> FileBytes(f)]
    /\ config \in ConcConfigs
    /\ Running
    /\ req = NoRequest
    /\ ret = NoReturn
    /\ resp = Response(FALSE, "", NoResult, <<>>)
    /\ fsLog = <<>>

\* Variant of Stored with the locals files and foundFile of the handlers
\* made one variable of the package, which every running call of the same
\* operation sees
StoredShared(t, c) ==
    /\ calls' = [u \in Threads |->
                   IF u = t THEN c
                   ELSE IF calls[u].pc = "run" /\ calls[u].op = c.op
                   THEN [calls[u] EXCEPT !.files = c.files, !.found = c.found]
                   ELSE calls[u]]
    /\ UNCHANGED <<files, dirs, content, config, req, ret, resp, fsLog,
                   pc, cmdline, home, configFile, startLog, denied>>

\* Goroutine t has made a step that leaves its call as c
Stored(t, c) ==
    /\ calls' = [calls EXCEPT ![t] = c]
    /\ UNCHANGED <<files, dirs, content, config, req, ret, resp, fsLog,
                   pc, cmdline, home, configFile, startLog, denied>>

\* handleFindMarkdownFiles, up to the loop of findMarkdownFiles
findBegun(query, pageSize) ==
    [NoCall EXCEPT !.pc = "run", !.op = "find", !.query = query,
                   !.pageSize = pageSize, !.i = 1]

ConcQueryArgs == { Absent, Str(<< "b" >>) }
ConcPageSizeArgs == { Absent, Str(<< "1" >>) }

AcceptFind(t) ==
    /\ calls[t].pc = "idle"
    /\ \E q \in ConcQueryArgs, p \in ConcPageSizeArgs :
          Stored(t, findBegun(extractQueryParam([query |-> q, page_size |-> p]),
                              extractPageSizeParam([query |-> q, page_size |-> p])))

\* handleReadMarkdownFile, up to the loop of findFirstFileByName
readBegun(filename) ==
    IF isTraversal(filename)
    THEN [NoCall EXCEPT !.pc = "done", !.op = "read", !.arg = filename,
             !.resp = Response(TRUE, "directory traversal not allowed", NoResult, <<>>)]
    ELSE IF ~isJustFilename(filename)
    THEN [NoCall EXCEPT !.pc = "done", !.op = "read", !.arg = filename,
             !.resp = Response(TRUE, "filename looks like a path", NoResult, <<>>)]
    ELSE [NoCall EXCEPT !.pc = "run", !.op = "read", !.arg = filename,
             !.filename = normalizeFilename(filename), !.i = 1]

ConcFilenameArgs == { << "a" >>, << "a", "b" >>, << ".", ".", "/", "a" >> }

AcceptRead(t) ==
    /\ calls[t].pc = "idle"
    /\ \E f \in ConcFilenameArgs : Stored(t, readBegun(f))

\* The loop of the call goes on: a directory is left, and a read has found
\* nothing yet
Scanning(c) ==
    /\ c.pc = "run"
    /\ c.i <= Len(config.Directories)
    /\ c.op = "find" \/ c.found = <<>>

\* Another goroutine is in the middle of its loop
OthersScan(t) ==
    \E u \in Threads \ {t} : calls[u].pc = "run" /\ calls[u].i > 1

\* findMarkdownFiles, one iteration of the first loop: collected is what
\* collectMarkdownFilesFromDir returned
scannedFind(c, collected, mixed) ==
    [c EXCEPT !.files = c.files \o collected.files, !.i = c.i + 1,
              !.log = c.log \o collected.log, !.mixed = c.mixed \/ mixed]

\* findFirstFileByName, the walk of one directory that exists: the calls of
\* the callback
resolveIn(absDir, filename) ==
    IF ~Exists(absDir) THEN <<>>
    ELSE WalkDir(absDir, ResolveCtx(filename))

\* Variant of readScanned that starts over at the first directory when the
\* last one had no match either
readScannedAgain(c, hits, log, mixed) ==
    IF hits = <<>> /\ c.i = Len(config.Directories) /\ c.i > 1
    THEN [c EXCEPT !.i = 1, !.log = <<>>, !.mixed = c.mixed \/ mixed]
    ELSE [c EXCEPT !.found = IF hits # <<>> THEN hits[Len(hits)] ELSE <<>>,
                   !.i = c.i + 1, !.log = c.log \o log, !.mixed = c.mixed \/ mixed]

\* findFirstFileByName, one iteration of the loop: hits is what the walk
\* assigned to foundFile, log the accesses of the iteration
readScanned(c, hits, log, mixed) ==
    [c EXCEPT !.found = IF hits # <<>> THEN hits[Len(hits)] ELSE <<>>,
              !.i = c.i + 1, !.log = c.log \o log, !.mixed = c.mixed \/ mixed]

scannedRead(c, absDir, visits, mixed) ==
    readScanned(c, HitsOf(visits), StatLog(absDir) \o VisitLog(visits), mixed)

scannedIn(c, absDir, mixed) ==
    scannedRead(c, absDir, resolveIn(absDir, c.filename), mixed)

scanned(c, mixed) ==
    IF c.op = "find"
    THEN scannedFind(c, collectMarkdownFilesFromDir(config.Directories[c.i]), mixed)
    ELSE scannedIn(c, FilepathAbs(config.Directories[c.i]), mixed)

\* Goroutine t scans the next configured directory
Scan(t) == Scanning(calls[t]) /\ Stored(t, scanned(calls[t], OthersScan(t)))

\* The handler after its loop: the response
replied(c) ==
    [c EXCEPT !.pc = "done",
              !.resp = IF c.op = "find"
                       THEN findHandled(c.query, c.pageSize,
                                findAmong([files |-> c.files, log |-> <<>>],
                                          c.query, c.pageSize)).resp
                       ELSE readResolved([found |-> c.found, err |-> c.found = <<>>,
                                          log |-> <<>>]).resp]

\* Goroutine t leaves its loop and builds the response
Reply(t) ==
    /\ calls[t].pc = "run"
    /\ ~Scanning(calls[t])
    /\ Stored(t, replied(calls[t]))

\* Goroutine t returns the response
Return(t) == calls[t].pc = "done" /\ Stored(t, NoCall)

NextConc ==
    \E t \in Threads :
        AcceptFind(t) \/ AcceptRead(t) \/ Scan(t) \/ Reply(t) \/ Return(t)

SpecConc == InitConc /\ [][NextConc]_vars

\* The scheduler lets every goroutine that can make a step make one: weak
\* fairness of Scan(t) and of Reply(t), that is WF_vars(Scan(t)) and
\* WF_vars(Reply(t)), written out with ENABLED <<Scan(t)>>_vars and
\* ENABLED <<Reply(t)>>_vars replaced by the guards of the two actions
\* (Scan(t) moves on to the next directory and Reply(t) sets pc to "done"
\* from every state that satisfies the guard)
SpecConcFair ==
    /\ SpecConc
    /\ \A t \in Threads :
          /\ []<>(~Scanning(calls[t])) \/ []<><<Scan(t)>>_vars
          /\ []<>(~(calls[t].pc = "run" /\ ~Scanning(calls[t]))) \/ []<><<Reply(t)>>_vars
          /\ WF_vars(Return(t))

----------------------------------------------------------------------------
(* Requests over a filesystem with directories the process may not read *)

DeniedFilesystems ==
    { { FilepathJoin(PSub, NameAbMd), FilepathJoin(FilepathJoin(RootP, NameXMd), NameAbMd) },
      { FilepathJoin(RootP, NameAMd), FilepathJoin(PSub, NameAMd) },
      { FilepathJoin(PSub, NameAbMd), FilepathJoin(RootQ, NameAMd) },
      { FilepathJoin(PSub, NameAMd) } }

DeniedConfigs ==
    [ Directories  : { << RootP >>, << PSub, RootP >>, << << "q" >>, RootP >>,
                       << RootP, << "q" >> >> },
      MaxPageSize  : {DefaultMaxPageSize},
      DebugLogging : {FALSE},
      IgnoreDirs   : {DefaultIgnoreDirs} ]

InitDenied ==
    /\ files \in DeniedFilesystems
    /\ dirs = DirsAbove(files)
    /\ denied \in SUBSET ({RootP, PSub, RootQ} \cap DirsAbove(files))
    /\ content = [f \in files |-> FileBytes(f)]
    /\ config \in DeniedConfigs
    /\ Running
    /\ req = NoRequest
    /\ ret = NoReturn
    /\ resp = Response(FALSE, "", NoResult, <<>>)
    /\ fsLog = <<>>

NextDenied == Find \/ ReadTool \/ Respond

SpecDenied == InitDenied /\ [][NextDenied]_vars

----------------------------------------------------------------------------
(* Requests over files whose names have two dots in a row *)

NameADotDotMd == << "a", ".", ".", "m", "d" >>
NameADotDotBMd == << "a", ".", ".", "b", ".", "m", "d" >>

DotsFilesystems ==
    SUBSET { FilepathJoin(RootP, NameADotDotMd), FilepathJoin(RootP, NameADotDotBMd),
             FilepathJoin(RootP, NameAMd), FilepathJoin(PSub, NameADotDotBMd) }

InitDots ==
    /\ files \in DotsFilesystems
    /\ dirs = DirsAbove(files)
    /\ denied = {}
    /\ content = [f \in files |-> FileBytes(f)]
    /\ config = [Directories |-> << RootP >>, MaxPageSize |-> DefaultMaxPageSize,
                 DebugLogging |-> FALSE, IgnoreDirs |-> DefaultIgnoreDirs]
    /\ Running
    /\ req = NoRequest
    /\ ret = NoReturn
    /\ resp = Response(FALSE, "", NoResult, <<>>)
    /\ fsLog = <<>>

DotsQueryArgs == { Absent, Str(<< ".", "." >>) }

\* A find_markdown_files tool call
FindDots ==
    Idle /\ \E q \in DotsQueryArgs :
        Handled(handleFindMarkdownFiles([query |-> q, page_size |-> Absent]))

DotsFilenameArgs ==
    { NameADotDotMd, << "a", "." >>, << "a", ".", "." >>, << "A", "." >>,
      NameADotDotBMd, << "a", ".", ".", "b" >>, << "a" >> }

\* A read_markdown_file tool call
ReadDots ==
    Idle /\ \E f \in DotsFilenameArgs :
        Handled(handleReadMarkdownFile([filename |-> Str(f)]))

\* A read of the resource template, by parameter or by file:// URI
ResourceDots ==
    Idle /\ \E f \in DotsFilenameArgs :
        \/ Handled(handleReadMarkdownFileResource([filename |-> Str(f)],
                                                  MarkdownScheme \o f))
        \/ Handled(handleReadMarkdownFileResource([filename |-> Absent],
                                                  FileScheme \o f))

NextDots == FindDots \/ ReadDots \/ ResourceDots \/ Respond

SpecDots == InitDots /\ [][NextDots]_vars

----------------------------------------------------------------------------
(* Notions the properties are stated with *)

IsFind == req.op = "find"
IsRead == req.op \in {"read", "resource"}

AbsDirectories == [i \in 1..Len(config.Directories) |-> FilepathAbs(config.Directories[i])]

\* The directories above a path, the root directory left out
AncestorDirs(path) ==
    { SubSeq(path, 1, i - 1) : i \in {j \in 2..Len(path) : path[j] = Separator} }

\* Some configured pattern is valid and matches somewhere in name
MatchesAnIgnorePattern(name) ==
    \E i \in 1..Len(config.IgnoreDirs) :
        RegexpMatchString(config.IgnoreDirs[i], name).matched

\* path lies in the tree of directory root
Under(root, path) == HasPrefix(path, root \o << Separator >>)

\* path lies below a directory whose base name matches an ignore pattern
UnderIgnoredDir(path) ==
    \E D \in AncestorDirs(path) : MatchesAnIgnorePattern(FilepathBase(D))

\* path lies in the tree of root, and no directory from root down to path
\* has a base name that matches an ignore pattern
CleanBelow(root, path) ==
    /\ Under(root, path)
    /\ \A D \in AncestorDirs(path) :
          Len(D) >= Len(root) => ~MatchesAnIgnorePattern(FilepathBase(D))

\* path is a file some configured directory reaches
Reachable(path) ==
    /\ path \in files
    /\ \E i \in 1..Len(AbsDirectories) : CleanBelow(AbsDirectories[i], path)

IsMarkdownName(name) == HasSuffix(ToLower(name), DotMd)

\* The paths of the filesystem accesses of one kind
LogPaths(op) ==
    LET l == SelectSeq(fsLog, LAMBDA e : e.op = op)
    IN  [i \in 1..Len(l) |-> l[i].path]

SeqHas(seq, x) == \E i \in 1..Len(seq) : seq[i] = x

----------------------------------------------------------------------------
(* C1 *)

----------------------------------------------------------------------------
(* C2 *)

\* C2 as stated: no file below a directory whose base name matches an ignore
\* pattern is returned by findMarkdownFiles or by findFirstFileByName.
C2_NothingBelowAnyIgnoredDir ==
    /\ IsFind => \A i \in 1..Len(ret.files) : ~UnderIgnoredDir(ret.files[i])
    /\ (IsRead /\ ret.found # <<>>) => ~UnderIgnoredDir(ret.found)

\* C2 as amended: every file returned by findMarkdownFiles or by
\* findFirstFileByName lies in the tree of a configured directory with no
\* directory from that configured directory (itself included) down to the
\* file matching an ignore pattern; a matching directory above the
\* configured directory excludes nothing.
C2_NothingBelowIgnoredDirOfWalk ==
    /\ IsFind => \A i \in 1..Len(ret.files) : Reachable(ret.files[i])
    /\ (IsRead /\ ret.found # <<>>) => Reachable(ret.found)

\* A find over /p that returns a file and leaves out /p/.git/sub/ab.md
C2_Witness ==
    /\ IsFind
    /\ config.Directories = << RootP >>
    /\ config.IgnoreDirs = DefaultIgnoreDirs
    /\ FilepathJoin(PGitSub, NameAbMd) \in files
    /\ Len(ret.files) = 1
    /\ ~SeqHas(ret.files, FilepathJoin(PGitSub, NameAbMd))

----------------------------------------------------------------------------
(* C3 *)

\* C3: every path find returns is a regular file whose base name ends with
\* .md when lower-cased, and every file read is one: no other entry, and no
\* directory named x.md, is returned or read.
C3_OnlyMarkdownFiles ==
    /\ IsFind => \A i \in 1..Len(ret.files) :
                    /\ ret.files[i] \in files
                    /\ IsMarkdownName(FilepathBase(ret.files[i]))
    /\ \A i \in 1..Len(LogPaths("readfile")) :
          /\ LogPaths("readfile")[i] \in files
          /\ IsMarkdownName(FilepathBase(LogPaths("readfile")[i]))
    /\ (IsRead /\ ~resp.isError) =>
          \E f \in files : IsMarkdownName(FilepathBase(f)) /\ resp.text = content[f]

\* A find over /p, which holds b.txt and the directory x.md, returns only
\* the file inside x.md
C3_Witness ==
    /\ IsFind
    /\ req.query = <<>>
    /\ config.Directories = << RootP >>
    /\ config.IgnoreDirs = DefaultIgnoreDirs
    /\ FilepathJoin(RootP, NameBTxt) \in files
    /\ FilepathJoin(RootP, NameXMd) \in dirs
    /\ ret.files = << FilepathJoin(FilepathJoin(RootP, NameXMd), NameAbMd) >>

----------------------------------------------------------------------------
(* C4 *)

\* C4: in a find response every file object holds the base filename in the
\* field name and nothing else, and no field of it is the absolute path of
\* the file.
C4_OnlyNamesInResponse ==
    (IsFind /\ ~resp.isError) =>
        \A i \in 1..Len(resp.result.files) :
            /\ DOMAIN resp.result.files[i] = {"name"}
            /\ \A k \in DOMAIN resp.result.files[i] :
                  resp.result.files[i][k] # ret.files[i]

----------------------------------------------------------------------------
(* C5, C6: checked under SpecPage *)

\* The page size the contract gives a request of p results
PageLimit(p) ==
    IF 0 < p /\ p <= config.MaxPageSize THEN p ELSE DefaultPageSize

\* C5: findMarkdownFiles returns at most p files when 0 < p <= maxPageSize,
\* and at most defaultPageSize = 50 files when p <= 0 or p > maxPageSize.
C5_PageSizeOrDefault ==
    IsFind =>
        /\ (0 < req.pageSize /\ req.pageSize <= config.MaxPageSize)
              => Len(ret.files) <= req.pageSize
        /\ (req.pageSize <= 0 \/ req.pageSize > config.MaxPageSize)
              => Len(ret.files) <= DefaultPageSize

\* A request above the maximum, over more than 50 files, gets 50 of them
C5_Witness ==
    /\ IsFind
    /\ req.query = <<>>
    /\ req.pageSize > config.MaxPageSize
    /\ config.MaxPageSize > DefaultPageSize
    /\ Cardinality(files) > DefaultPageSize
    /\ Len(ret.files) = DefaultPageSize

\* C6: findMarkdownFiles never returns more than maxPageSize files, whatever
\* the configured maxPageSize and the requested page size.
C6_AtMostMaxPageSize ==
    IsFind => Len(ret.files) <= config.MaxPageSize

----------------------------------------------------------------------------
(* C7 *)

\* The first n elements of seq, all of it when it is shorter
Truncate(seq, n) == IF Len(seq) > n THEN SubSeq(seq, 1, n) ELSE seq

\* C7: every file findMarkdownFiles(q, p) returns has a base name that,
\* lower-cased, contains lower-cased q (the directories of the path are not
\* matched), and for q = "" the result is the unfiltered discovery sequence
\* truncated to the effective page size.
C7_QueryMatchesBaseName ==
    IsFind =>
        /\ \A i \in 1..Len(ret.files) :
              Contains(ToLower(FilepathBase(ret.files[i])), ToLower(req.query))
        /\ req.query = <<>> =>
              ret.files = Truncate(collectFrom(1).files, PageLimit(req.pageSize))

\* The query sub finds nothing although /p/sub/a.md is discoverable
C7_Witness ==
    /\ IsFind
    /\ req.query = NameSub
    /\ Reachable(FilepathJoin(PSub, NameAMd))
    /\ ret.files = <<>>

\* The query B finds ab.md: the match is case-insensitive
C7_WitnessFold ==
    /\ IsFind
    /\ req.query = << "B" >>
    /\ ret.files = << FilepathJoin(PSub, NameAbMd) >>

----------------------------------------------------------------------------
(* C8, C9, C10 *)

\* The name the resolver looks for, given the requested name
NormalName(name) ==
    IF HasSuffix(ToLower(name), DotMd) THEN name ELSE name \o DotMd

\* The request reached findFirstFileByName
Resolving ==
    /\ IsRead
    /\ req.filename # <<>>
    /\ ~Contains(req.filename, DotDot)
    /\ ~Contains(req.filename, << Separator >>)

\* The files the walk of configured directory i reaches whose base name is
\* name up to case
CandidatesIn(i, name) ==
    { f \in files : /\ CleanBelow(AbsDirectories[i], f)
                    /\ ToLower(FilepathBase(f)) = ToLower(name) }

Candidates(name) ==
    UNION { CandidatesIn(i, name) : i \in 1..Len(AbsDirectories) }

C9_NormalizedFoldedMatch ==
    Resolving =>
        /\ ret.found # <<>> <=> Candidates(NormalName(req.filename)) # {}
        /\ ret.found # <<>> => ret.found \in Candidates(NormalName(req.filename))
        /\ ret.found # <<>> =>
              ToLower(FilepathBase(ret.found)) \in
                  { ToLower(req.filename), ToLower(req.filename) \o DotMd }
        /\ \A other \in { << "a" >>, << "a", ".", "m", "d" >>, << "a", ".", "M", "D" >> } :
              req.filename \in { << "a" >>, << "a", ".", "m", "d" >>, << "a", ".", "M", "D" >> }
                  => Candidates(NormalName(other)) = Candidates(NormalName(req.filename))

\* The name a.MD, which gets no second extension, finds the file A.MD
C9_Witness ==
    /\ Resolving
    /\ req.filename = << "a", ".", "M", "D" >>
    /\ ret.found = FilepathJoin(RootP, NameUpperAMd)
    /\ ~resp.isError

\* The name a finds the file A.MD
C9_WitnessStem ==
    /\ Resolving
    /\ req.filename = << "a" >>
    /\ ret.found = FilepathJoin(RootP, NameUpperAMd)

\* A find that was not cut by the page size returns every reachable
\* markdown file
FindIsComplete ==
    (IsFind /\ req.query = <<>> /\ Len(ret.files) < PageLimit(req.pageSize)) =>
        \A f \in files :
            (Reachable(f) /\ IsMarkdownName(FilepathBase(f))) => SeqHas(ret.files, f)

\* C10 as stated: a find that the page size does not cut includes every
\* reachable file X.md, and a read of X returns the bytes of that very file,
\* also when other files are named X.md.
C10_RoundTripEveryFile ==
    /\ FindIsComplete
    /\ Resolving =>
          \A f \in files :
              (Reachable(f) /\ FilepathBase(f) = req.filename \o DotMd)
                  => (~resp.isError /\ resp.text = content[f])

\* C10 as amended: a find that the page size does not cut includes every
\* reachable file X.md; a read of X succeeds exactly when some reachable file
\* is named X.md up to case, and returns the bytes of one such file, the one
\* the resolver finds first; these are the bytes of X.md itself when no other
\* reachable file has that name up to case.
C10_RoundTripFirstMatch ==
    /\ FindIsComplete
    /\ Resolving =>
          /\ resp.isError <=> Candidates(NormalName(req.filename)) = {}
          /\ ~resp.isError =>
                /\ ret.found \in Candidates(NormalName(req.filename))
                /\ resp.text = content[ret.found]
                /\ LogPaths("readfile") = << ret.found >>
          /\ \A f \in files :
                Candidates(NormalName(req.filename)) = {f} => resp.text = content[f]

\* A read of ab with /p/sub/ab.md reachable and /p/.git/sub/ab.md ignored
\* returns the bytes of /p/sub/ab.md
C10_Witness ==
    /\ Resolving
    /\ req.filename = << "a", "b" >>
    /\ config.Directories = << RootP >>
    /\ files = { FilepathJoin(PSub, NameAbMd), FilepathJoin(PGitSub, NameAbMd) }
    /\ Candidates(NormalName(req.filename)) = { FilepathJoin(PSub, NameAbMd) }
    /\ resp.text = content[FilepathJoin(PSub, NameAbMd)]

----------------------------------------------------------------------------
(* C11 *)

\* What a call of findFirstFileByName returns to its caller
Resolution(filename) ==
    [ found |-> findFirstFileByName(filename).found,
      err   |-> findFirstFileByName(filename).err ]

----------------------------------------------------------------------------
(* C12 *)

\* Some configured directory holds, at any depth, a file whose base name is
\* name up to case
SomeDirectoryContains(name) ==
    \E i \in 1..Len(AbsDirectories) : \E f \in files :
        Under(AbsDirectories[i], f) /\ ToLower(FilepathBase(f)) = ToLower(name)

\* C12: when no configured directory contains a file whose base name equals
\* the normalized filename up to case, findFirstFileByName returns the empty
\* path with a not-found error, and the read operation returns an error
\* result that says the file was not found, with no file content and no
\* file read.
C12_NotFoundIsAnError ==
    (Resolving /\ ~SomeDirectoryContains(NormalName(req.filename))) =>
        /\ ret.found = <<>>
        /\ ret.err
        /\ resp.isError
        /\ resp.msg = "error searching for file: file not found"
        /\ resp.text = <<>>
        /\ LogPaths("readfile") = <<>>

\* A read of x, where /p holds the directory x.md and no file of that name,
\* is answered not found after /p has been walked
C12_Witness ==
    /\ Resolving
    /\ req.filename = << "x" >>
    /\ config.Directories = << RootP >>
    /\ FilepathJoin(RootP, NameXMd) \in dirs
    /\ SeqHas(LogPaths("visit"), FilepathJoin(RootP, NameXMd))
    /\ ret.err
    /\ resp.isError

----------------------------------------------------------------------------
(* C13 *)

\* The files collected from the configured directories i.. that exist, the
\* others left out
RECURSIVE ExistingFilesFrom(_)
ExistingFilesFrom(i) ==
    IF i > Len(config.Directories) THEN <<>>
    ELSE IF Exists(AbsDirectories[i])
    THEN collectMarkdownFilesFromDir(config.Directories[i]).files
             \o ExistingFilesFrom(i + 1)
    ELSE ExistingFilesFrom(i + 1)

\* C13: findMarkdownFiles returns no error, whatever the configuration and
\* the filesystem, and its result is the result obtained from the configured
\* directories that exist: a missing directory contributes nothing and does
\* not stop the scan of the directories after it.
C13_DiscoveryNeverFails ==
    IsFind =>
        /\ ~ret.err
        /\ ~resp.isError
        /\ ret.files = paginate(filterByQuery(ExistingFilesFrom(1), req.query),
                                PageLimit(req.pageSize))

\* q is configured first and /q does not exist: the file of /p is found
C13_Witness ==
    /\ IsFind
    /\ config.Directories = << << "q" >>, RootP >>
    /\ ~Exists(RootQ)
    /\ LogPaths("stat") = << RootQ, RootP >>
    /\ ret.files = << FilepathJoin(RootP, NameAMd) >>
    /\ ~ret.err

----------------------------------------------------------------------------
(* C14: checked under SpecResolve *)

IsResolve == req.op = "resolve"

\* The filename has ".." or a separator
Unsafe(filename) ==
    Contains(filename, DotDot) \/ Contains(filename, << Separator >>)

\* C14 as stated: findFirstFileByName rejects a filename with ".." or a
\* separator without touching the filesystem, and never returns a value
\* with a separator or "..".
C14_ResolverGuardsItself ==
    IsResolve =>
        /\ Unsafe(req.filename) => (ret.err /\ ret.found = <<>> /\ fsLog = <<>>)
        /\ ~Unsafe(ret.found)

\* C14 as amended: the guard is the read handlers' and not the resolver's.
\* A read request with ".." or a separator in the filename is rejected
\* before findFirstFileByName is called, so the handlers never pass it such
\* a name. Called on its own with such a name, findFirstFileByName makes no
\* check: it stats every configured directory and walks those that exist,
\* as for any other name, and finds a file exactly when a reachable file has
\* the normalized name as base name up to case, which no name with a
\* separator is. What it returns on success is the absolute path of that
\* file, separators included.
C14_GuardIsTheHandlers ==
    /\ (IsRead /\ Unsafe(req.filename)) => (resp.isError /\ fsLog = <<>>)
    /\ IsResolve =>
          /\ LogPaths("stat") # <<>>
          /\ \A i \in 1..Len(LogPaths("stat")) :
                LogPaths("stat")[i] = AbsDirectories[i]
          /\ ret.err <=> Candidates(NormalName(req.filename)) = {}
          /\ ret.err <=> ret.found = <<>>
          /\ ret.err => LogPaths("stat") = AbsDirectories
          /\ Contains(req.filename, << Separator >>) => ret.err
          /\ ~ret.err =>
                /\ ret.found \in Candidates(NormalName(req.filename))
                /\ HasPrefix(ret.found, << Separator >>)

\* Called with p/a.md while /p/a.md exists, the resolver walks /p, meets the
\* file and returns not found
C14_Witness ==
    /\ IsResolve
    /\ req.filename = << "p", "/", "a", ".", "m", "d" >>
    /\ config.Directories = << RootP >>
    /\ SeqHas(LogPaths("visit"), FilepathJoin(RootP, NameAMd))
    /\ ret.err

----------------------------------------------------------------------------
(* C15, C16, C17: checked under SpecStart *)

Serving == pc = "serving"
Exited == pc \in {"exit(0)", "exit(1)"}

\* The flags that end main before it looks at the arguments
EndsOnFlags == cmdline.help \/ (cmdline.debug /\ cmdline.quiet)

CannotLoad ==
    home = NoHome \/ configFile.state \in {"missing", "unreadable", "malformed"}

ExpandedHome(dir) ==
    IF dir = << Tilde >> THEN home
    ELSE IF HasPrefix(dir, << Tilde, Separator >>)
    THEN home \o << Separator >> \o SubSeq(dir, 3, Len(dir))
    ELSE dir

\* C17: when the process serves the configuration it loaded from the file,
\* MaxPageSize is DefaultMaxPageSize when the file has no max_page_size (or
\* has 0) and the value of the file otherwise; IgnoreDirs is the two default
\* patterns when the file has no ignore_dirs (or an empty list) and the
\* list of the file otherwise; Directories has an entry for each entry of
\* the file, in order: the home directory for ~, the home directory joined
\* with rest for ~/rest, and the entry itself otherwise.
C17_DefaultsAndExpansion ==
    (Serving /\ Len(cmdline.args) = 0) =>
        LET doc == configFile.doc
            listed == IF doc.directories.kind = "array"
                      THEN doc.directories.val ELSE <<>>
        IN  /\ configFile.state = "json"
            /\ doc.max_page_size = Absent => config.MaxPageSize = DefaultMaxPageSize
            /\ doc.max_page_size = Num(0) => config.MaxPageSize = DefaultMaxPageSize
            /\ (doc.max_page_size.kind = "number" /\ doc.max_page_size.num # 0) =>
                  config.MaxPageSize = doc.max_page_size.num
            /\ doc.ignore_dirs \in {Absent, Arr(<<>>)} =>
                  config.IgnoreDirs = DefaultIgnoreDirs
            /\ (doc.ignore_dirs.kind = "array" /\ doc.ignore_dirs.val # <<>>) =>
                  config.IgnoreDirs = doc.ignore_dirs.val
            /\ Len(config.IgnoreDirs) = 2 \/ doc.ignore_dirs.kind = "array"
            /\ Len(config.Directories) = Len(listed)
            /\ \A i \in 1..Len(listed) :
                  config.Directories[i] = ExpandedHome(listed[i])

\* Loaded from a file that lists ~/sub and /p and neither max_page_size nor
\* ignore_dirs, the server answers a find from /p/sub and /p
C17_Witness ==
    /\ Serving
    /\ Len(cmdline.args) = 0
    /\ configFile.doc.directories = Arr(<< << Tilde, Separator >> \o NameSub, RootP >>)
    /\ configFile.doc.max_page_size = Absent
    /\ configFile.doc.ignore_dirs = Absent
    /\ config.Directories = << PSub, RootP >>
    /\ config.MaxPageSize = DefaultMaxPageSize
    /\ config.IgnoreDirs = DefaultIgnoreDirs
    /\ IsFind
    /\ ret.files = << FilepathJoin(PSub, NameAbMd), FilepathJoin(RootP, NameAMd),
                      FilepathJoin(PSub, NameAbMd) >>

\* The file lists another user's home, ~x, which stays as it is
C17_WitnessOtherUser ==
    /\ Serving
    /\ Len(cmdline.args) = 0
    /\ configFile.doc.max_page_size = Num(2)
    /\ config.MaxPageSize = 2
    /\ config.Directories = << << Tilde, "x" >>, << "q" >> >>

----------------------------------------------------------------------------
(* C18: checked under Spec *)

\* Directory names the ignore patterns are tried on, next to the names of
\* the directories of the filesystem
ProbeNames ==
    { NameGit, << "a" >> \o NameGit, NameGit \o << "h", "u", "b" >>,
      << "x", "g", "i", "t" >>, NameNodeModules, << "m", "y", "_" >> \o NameNodeModules,
      NameNodeModules \o << "2" >>, NameSub, << "q" >>, << "q", "x" >>,
      << "x", "q" >>, << "a", "q" >>, NameXMd, << "(" >>, <<>> }

\* What the patterns of the model are to ignore: the two defaults a name
\* that ends in .git or in node_modules; the other list, whose first pattern
\* does not compile, a name that starts with x or ends in q
ExpectIgnored(name) ==
    IF config.IgnoreDirs = DefaultIgnoreDirs
    THEN HasSuffix(name, NameGit) \/ HasSuffix(name, NameNodeModules)
    ELSE HasPrefix(name, << "x" >>) \/ HasSuffix(name, << "q" >>)

\* C18: shouldIgnoreDir(name) is true exactly when some configured pattern
\* that compiles matches somewhere in name, anchors respected; a pattern
\* that does not compile is skipped: it matches nothing, the patterns after
\* it are still tried, and a find under such a configuration fails in
\* nothing, returns only files no ignored directory holds and, when the page
\* size does not cut it, all of them.
C18_IgnoredIffValidPatternMatches ==
    /\ \A name \in ProbeNames \cup { FilepathBase(D) : D \in dirs } :
          /\ shouldIgnoreDir(name) <=> MatchesAnIgnorePattern(name)
          /\ shouldIgnoreDir(name) <=> ExpectIgnored(name)
    /\ \A i \in 1..Len(config.IgnoreDirs) :
          ~RegexpValid(config.IgnoreDirs[i]) =>
              \A name \in ProbeNames :
                  /\ RegexpMatchString(config.IgnoreDirs[i], name).err
                  /\ ~IsMatch(RegexpMatchString(config.IgnoreDirs[i], name))
    /\ IsFind =>
          /\ ~ret.err /\ ~resp.isError
          /\ \A i \in 1..Len(ret.files) : Reachable(ret.files[i])
    /\ FindIsComplete

\* Under the patterns (, ^x and q$ a find over /p leaves out the file of
\* the directory /p/x.md and returns the file of /p
C18_Witness ==
    /\ IsFind
    /\ req.query = <<>>
    /\ config.Directories = << RootP >>
    /\ config.IgnoreDirs = CustomIgnoreDirs
    /\ ~RegexpValid(config.IgnoreDirs[1])
    /\ files = { FilepathJoin(FilepathJoin(RootP, NameXMd), NameAbMd),
                 FilepathJoin(RootP, NameAMd) }
    /\ shouldIgnoreDir(NameXMd)
    /\ ret.files = << FilepathJoin(RootP, NameAMd) >>

----------------------------------------------------------------------------
(* C19, C20: checked under Spec *)

\* C19: in every find response that is not an error, count is the number of
\* entries of files, which is the number of files findMarkdownFiles returned
\* for the request, and entry i of files is the object of the i-th file
\* returned.
C19_CountIsNumberOfFiles ==
    (IsFind /\ ~resp.isError) =>
        /\ resp.result.count = Len(resp.result.files)
        /\ Len(resp.result.files) = Len(ret.files)
        /\ \A i \in 1..Len(ret.files) : resp.result.files[i].path = ret.files[i]

\* A find that returns two files of the same name answers count 2
C19_Witness ==
    /\ IsFind
    /\ ~resp.isError
    /\ Len(ret.files) = 2
    /\ FilepathBase(ret.files[1]) = FilepathBase(ret.files[2])
    /\ resp.result.count = 2
    /\ Len(resp.result.files) = 2

\* What discovery yields for configured directory i
PerDirectory(i) == collectMarkdownFilesFromDir(config.Directories[i]).files

\* The per-directory discovery results of directories i.., in
\* configuration order
RECURSIVE Concatenation(_)
Concatenation(i) ==
    IF i > Len(config.Directories) THEN <<>>
    ELSE PerDirectory(i) \o Concatenation(i + 1)

\* The entries of all whose base name contains q, case folded, in the order
\* of all
RECURSIVE Restricted(_, _)
Restricted(all, q) ==
    IF all = <<>> THEN <<>>
    ELSE IF q = <<>> \/ Contains(ToLower(FilepathBase(Head(all))), ToLower(q))
    THEN << Head(all) >> \o Restricted(Tail(all), q)
    ELSE Restricted(Tail(all), q)

\* The configured directory whose discovery yields file f
Owner(f) ==
    CHOOSE i \in 1..Len(config.Directories) : SeqHas(PerDirectory(i), f)

\* C20: the result of findMarkdownFiles(q, p) is the first min(n, e)
\* elements of the filtered sequence: the concatenation of the per-directory
\* discovery results in configuration order, restricted to the entries that
\* match q, n its length and e the effective page size. Every file of an
\* earlier configured directory precedes every file of a later one.
C20_FirstOfFilteredConcatenation ==
    IsFind =>
        LET filtered == Restricted(Concatenation(1), req.query)
            n == Len(filtered)
            e == PageLimit(req.pageSize)
        IN  /\ Len(ret.files) = IF n < e THEN n ELSE e
            /\ \A i \in 1..Len(ret.files) : ret.files[i] = filtered[i]
            /\ \A i, j \in 1..Len(ret.files) :
                  i < j => Owner(ret.files[i]) <= Owner(ret.files[j])

\* With q configured before /p, the file of /q precedes the file of /p
C20_Witness ==
    /\ IsFind
    /\ config.Directories = << << "q" >>, RootP >>
    /\ req.pageSize = DefaultPageSize
    /\ ret.files = << FilepathJoin(RootQ, NameAMd), FilepathJoin(RootP, NameAMd) >>

\* With page size 1, only the file of the first directory is returned
C20_WitnessCut ==
    /\ IsFind
    /\ config.Directories = << << "q" >>, RootP >>
    /\ req.pageSize = 1
    /\ files = { FilepathJoin(RootQ, NameAMd), FilepathJoin(RootP, NameAMd) }
    /\ ret.files = << FilepathJoin(RootQ, NameAMd) >>

----------------------------------------------------------------------------
(* C21: checked under Spec *)

\* The entry at path is a regular file whose name is name up to case
IsMatchingFile(path, name) ==
    path \in files /\ ToLower(FilepathBase(path)) = ToLower(name)

\* C21: when the resolver finds a file, the visit of that file is the last
\* visit of the call: no entry is visited after it, in that directory tree
\* or in a later configured directory. No entry visited before it is a file
\* of the normalized name up to case, so the path returned is the first
\* match visited.
C21_WalkStopsAtFirstMatch ==
    (Resolving /\ ret.found # <<>>) =>
        LET visited == LogPaths("visit")
        IN  /\ visited # <<>>
            /\ visited[Len(visited)] = ret.found
            /\ IsMatchingFile(ret.found, NormalName(req.filename))
            /\ \A i \in 1..(Len(visited) - 1) :
                  ~IsMatchingFile(visited[i], NormalName(req.filename))

\* /p holds A.MD and a.md: a read of a returns /p/A.MD and never visits
\* /p/a.md
C21_Witness ==
    /\ Resolving
    /\ req.filename = << "a" >>
    /\ config.Directories = << RootP >>
    /\ files = { FilepathJoin(RootP, NameUpperAMd), FilepathJoin(RootP, NameAMd) }
    /\ ret.found = FilepathJoin(RootP, NameUpperAMd)
    /\ LogPaths("visit") = << RootP, FilepathJoin(RootP, NameUpperAMd) >>

----------------------------------------------------------------------------
(* C22: checked under Spec *)

\* How often x occurs in seq
Occurrences(seq, x) == Cardinality({ i \in 1..Len(seq) : seq[i] = x })

\* The markdown files of the filesystem whose base name contains q
MatchingFiles(q) ==
    { f \in files : /\ IsMarkdownName(FilepathBase(f))
                    /\ Contains(ToLower(FilepathBase(f)), ToLower(q)) }

\* The configured roots that file f lies below
RootsAbove(f) == { i \in 1..Len(AbsDirectories) : Under(AbsDirectories[i], f) }

\* The configured roots whose walk reaches file f: no directory from the
\* root down to f matches an ignore pattern
RootsReaching(f) ==
    { i \in 1..Len(AbsDirectories) : CleanBelow(AbsDirectories[i], f) }

RECURSIVE SumOver(_, _)
SumOver(F, n) ==
    IF F = {} THEN 0
    ELSE LET f == CHOOSE x \in F : TRUE
         IN  n[f] + SumOver(F \ {f}, n)

\* C22 as stated: a find that the page size does not cut returns a matching
\* file once per configured root the file lies below, and a find returns as
\* many files as the page size allows of that many occurrences.
C22_OncePerRootAbove ==
    IsFind =>
        LET n == [f \in MatchingFiles(req.query) |-> Cardinality(RootsAbove(f))]
            total == SumOver(MatchingFiles(req.query), n)
            e == PageLimit(req.pageSize)
        IN  /\ Len(ret.files) = IF total < e THEN total ELSE e
            /\ total <= e =>
                  \A f \in MatchingFiles(req.query) :
                      Occurrences(ret.files, f) = n[f]

\* C22 as amended: discovery does not de-duplicate. A find that the page
\* size does not cut returns a matching file once per configured root whose
\* walk reaches it, that is once per root the file lies below with no
\* directory from that root down to the file matching an ignore pattern; a
\* root separated from the file by an ignored directory contributes no
\* occurrence. Each occurrence counts against the page size.
C22_OncePerRootReaching ==
    IsFind =>
        LET n == [f \in MatchingFiles(req.query) |-> Cardinality(RootsReaching(f))]
            total == SumOver(MatchingFiles(req.query), n)
            e == PageLimit(req.pageSize)
        IN  /\ Len(ret.files) = IF total < e THEN total ELSE e
            /\ total <= e =>
                  \A f \in MatchingFiles(req.query) :
                      Occurrences(ret.files, f) = n[f]

\* /p/.git/sub and /p are configured and .git is not ignored: the file of
\* /p/.git/sub is returned twice
C22_Witness ==
    /\ IsFind
    /\ config.Directories = << PGitSub, RootP >>
    /\ config.IgnoreDirs = CustomIgnoreDirs
    /\ req.query = <<>>
    /\ ret.files = << FilepathJoin(PGitSub, NameAbMd), FilepathJoin(PGitSub, NameAbMd) >>

----------------------------------------------------------------------------
(* C23: checked under Spec *)

\* The accesses that leave the filesystem as it is
ReadOnlyAccesses == {"stat", "visit", "visiterr", "readfile"}

----------------------------------------------------------------------------
(* C24: checked under SpecConc *)

\* The response to the request of call c handled alone
Alone(c) ==
    IF c.op = "find" THEN findParsed(c.query, c.pageSize).resp
    ELSE handleReadMarkdownFile([filename |-> Str(c.arg)]).resp

\* C24: whatever the interleaving of the steps of the goroutines, the
\* response a handler has built is the response to its request handled
\* alone, over the same filesystem and configuration.
C24_SameResultAsAlone ==
    \A t \in Threads : calls[t].pc = "done" => calls[t].resp = Alone(calls[t])

\* A find and a read both scanned while the other was in the middle of its
\* loop, and both have their responses: the find two files, the read the
\* bytes of /q/a.md
C24_Witness ==
    /\ config.Directories = << << "q" >>, RootP >>
    /\ calls[1].pc = "done" /\ calls[1].op = "find" /\ calls[1].mixed
    /\ calls[1].resp.result.count = 2
    /\ calls[2].pc = "done" /\ calls[2].op = "read"
    /\ calls[2].resp.text = FileBytes(FilepathJoin(RootQ, NameAMd))

\* Two finds in the middle of each other
C24_WitnessTwoFinds ==
    /\ calls[1].pc = "done" /\ calls[1].op = "find" /\ calls[1].mixed
    /\ calls[2].pc = "done" /\ calls[2].op = "find" /\ calls[2].mixed
    /\ calls[1].query # calls[2].query
    /\ calls[1].resp.result.count = 2

----------------------------------------------------------------------------
(* C25: checked under Spec *)

\* C25: every path findFirstFileByName returns ends with .md once
\* lower-cased, so that no read, by the tool or by the resource, answers
\* that the resolved file is not a markdown file.
C25_ResolvedIsMarkdown ==
    IsRead =>
        /\ ret.found # <<>> => HasSuffix(ToLower(ret.found), DotMd)
        /\ ret.found # <<>> => IsMarkdownName(FilepathBase(ret.found))
        /\ resp.msg # "file is not a markdown file"

\* A read of b.txt visits /p/b.txt and does not resolve to it
C25_Witness ==
    /\ Resolving
    /\ req.filename = NameBTxt
    /\ FilepathJoin(RootP, NameBTxt) \in files
    /\ SeqHas(LogPaths("visit"), FilepathJoin(RootP, NameBTxt))
    /\ ret.found = <<>>
    /\ resp.isError

\* A read of a.MD resolves to /p/A.MD and returns its bytes
C25_WitnessFound ==
    /\ Resolving
    /\ req.filename = << "a", ".", "M", "D" >>
    /\ ret.found = FilepathJoin(RootP, NameUpperAMd)
    /\ ~resp.isError

----------------------------------------------------------------------------
(* C26: checked under SpecDenied *)

\* No directory above path is denied to the process
Accessible(path) == \A D \in AncestorDirs(path) : D \notin denied

\* C26: an error on an entry of a walk (a directory that cannot be listed,
\* a configured root that cannot be stat'ed) fails no request: the callback
\* returns on it without a hit and the walk goes on. A find returns no
\* error and only accessible files and, when neither the query nor the page
\* size leaves any out, every accessible markdown file its walks reach; the
\* resolver finds a file exactly when some accessible file its walks reach
\* has the normalized name up to case, and returns such a file. The errors
\* reported are those of the denied directories and of what lies below
\* them.
C26_EntryErrorsAreSwallowed ==
    /\ IsFind =>
          /\ ~ret.err /\ ~resp.isError
          /\ \A i \in 1..Len(ret.files) : Accessible(ret.files[i])
          /\ (req.query = <<>> /\ Len(ret.files) < PageLimit(req.pageSize)) =>
                \A f \in files :
                    (Reachable(f) /\ IsMarkdownName(FilepathBase(f)) /\ Accessible(f))
                        => SeqHas(ret.files, f)
    /\ Resolving =>
          LET within == { f \in Candidates(NormalName(req.filename)) : Accessible(f) }
          IN  /\ ret.err <=> within = {}
              /\ ~ret.err => ret.found \in within
    /\ \A i \in 1..Len(fsLog) :
          fsLog[i].op = "visiterr" =>
              (fsLog[i].path \in denied \/ ~Accessible(fsLog[i].path))

\* /p/sub cannot be listed: a find over /p reports the error on /p/sub,
\* goes on to /p/x.md and returns its file
C26_Witness ==
    /\ IsFind
    /\ req.query = <<>>
    /\ config.Directories = << RootP >>
    /\ denied = {PSub}
    /\ files = { FilepathJoin(PSub, NameAbMd),
                 FilepathJoin(FilepathJoin(RootP, NameXMd), NameAbMd) }
    /\ LogPaths("visiterr") = << PSub >>
    /\ ret.files = << FilepathJoin(FilepathJoin(RootP, NameXMd), NameAbMd) >>

\* /p cannot be searched, so the root /p/sub cannot be stat'ed: a read of a
\* finds nothing, the file of /p/sub being out of reach
C26_WitnessRoot ==
    /\ Resolving
    /\ req.filename = << "a" >>
    /\ config.Directories = << PSub, RootP >>
    /\ denied = {RootP}
    /\ FilepathJoin(PSub, NameAMd) \in files
    /\ LogPaths("visiterr") = << PSub, RootP >>
    /\ ret.err

\* /p/sub cannot be listed and holds a.md: a read of a finds /p/a.md
C26_WitnessRead ==
    /\ Resolving
    /\ req.filename = << "a" >>
    /\ config.Directories = << PSub, RootP >>
    /\ denied = {PSub}
    /\ ret.found = FilepathJoin(RootP, NameAMd)
    /\ ~resp.isError

----------------------------------------------------------------------------
(* C27: checked under Spec *)

\* The entries of the discovery sequence whose base name is name up to case
NamedIn(discovered, name) ==
    SelectSeq(discovered, LAMBDA f : ToLower(FilepathBase(f)) = ToLower(name))

\* C27: for a filename without ".." and without separator,
\* findFirstFileByName returns the first element of the discovery sequence
\* (what discovery collects from all configured directories in order, not
\* filtered and not cut) whose base name is the normalized filename up to
\* case, and returns not found exactly when the sequence has no such
\* element.
C27_ResolverAgreesWithDiscovery ==
    Resolving =>
        LET named == NamedIn(Concatenation(1), NormalName(req.filename))
        IN  /\ ret.err <=> named = <<>>
            /\ ret.err <=> ret.found = <<>>
            /\ ~ret.err => ret.found = named[1]

\* q is configured before /p and both hold a.md: discovery lists /q/a.md
\* first and a read of a resolves to it
C27_Witness ==
    /\ Resolving
    /\ req.filename = << "a" >>
    /\ config.Directories = << << "q" >>, RootP >>
    /\ Concatenation(1) = << FilepathJoin(RootQ, NameAMd), FilepathJoin(RootP, NameAMd) >>
    /\ ret.found = FilepathJoin(RootQ, NameAMd)

\* Discovery lists no file named x.md, and a read of x finds none
C27_WitnessNotFound ==
    /\ Resolving
    /\ req.filename = << "x" >>
    /\ Len(Concatenation(1)) = 2
    /\ ret.err

----------------------------------------------------------------------------
(* C28: checked under Spec *)

\* The configured directories that exist and whose base name matches an
\* ignore pattern
IgnoredRoots ==
    { i \in 1..Len(AbsDirectories) :
        /\ Exists(AbsDirectories[i])
        /\ MatchesAnIgnorePattern(FilepathBase(AbsDirectories[i])) }

\* path is the configured directory j or lies below it, for some j other
\* than i
InAnotherRoot(i, path) ==
    \E j \in 1..Len(AbsDirectories) :
        j # i /\ (AbsDirectories[j] = path \/ Under(AbsDirectories[j], path))

\* C28: a configured directory that exists and whose base name matches an
\* ignore pattern yields nothing: discovery collects no file from it, and
\* during a find or a read nothing below it is visited and no file is
\* returned because of it, whatever markdown files it holds.
C28_IgnoredRootYieldsNothing ==
    \A i \in IgnoredRoots :
        /\ PerDirectory(i) = <<>>
        /\ \A k \in 1..Len(LogPaths("visit")) :
              Under(AbsDirectories[i], LogPaths("visit")[k])
                  => InAnotherRoot(i, LogPaths("visit")[k])
        /\ IsFind =>
              \A k \in 1..Len(ret.files) :
                  Under(AbsDirectories[i], ret.files[k])
                      => InAnotherRoot(i, ret.files[k])
        /\ (IsRead /\ ret.found # <<>> /\ Under(AbsDirectories[i], ret.found))
              => InAnotherRoot(i, ret.found)

\* q is configured, /q holds a.md and the pattern q$ matches q: a find
\* visits /q, nothing below it, and returns nothing
C28_Witness ==
    /\ IsFind
    /\ req.query = <<>>
    /\ config.Directories = << << "q" >> >>
    /\ config.IgnoreDirs = CustomIgnoreDirs
    /\ FilepathJoin(RootQ, NameAMd) \in files
    /\ IgnoredRoots = {1}
    /\ LogPaths("visit") = << RootQ >>
    /\ ret.files = <<>>

\* The same for a read of a: not found
C28_WitnessRead ==
    /\ Resolving
    /\ req.filename = << "a" >>
    /\ config.Directories = << << "q" >> >>
    /\ config.IgnoreDirs = CustomIgnoreDirs
    /\ FilepathJoin(RootQ, NameAMd) \in files
    /\ LogPaths("visit") = << RootQ >>
    /\ ret.err

----------------------------------------------------------------------------
(* C29: checked under SpecDots *)

\* The read request names file f: its filename, normalized, is the base name
\* of f up to case
Names(filename, f) ==
    /\ filename # <<>>
    /\ ToLower(NormalName(filename)) = ToLower(FilepathBase(f))

RejectedAsTraversal ==
    /\ resp.isError
    /\ resp.msg = "directory traversal not allowed"
    /\ fsLog = <<>>

\* The files with ".." in their base name that the walks reach
DottedFiles ==
    { f \in files : Reachable(f) /\ IsMarkdownName(FilepathBase(f))
                    /\ Contains(FilepathBase(f), DotDot) }

\* C29 as stated: a file with ".." in its base name, in a configured
\* directory that is not ignored, is returned by find, and every read request
\* that names it is rejected as a traversal attempt.
C29_EveryReadOfDottedRejected ==
    /\ (IsFind /\ req.query = <<>>) =>
          \A f \in DottedFiles : SeqHas(ret.files, f)
    /\ IsRead =>
          \A f \in DottedFiles : Names(req.filename, f) => RejectedAsTraversal

\* C29 as amended: a file with ".." in its base name, in a configured
\* directory that is not ignored, is returned by find. A read request is
\* rejected as a traversal attempt, before the filesystem is touched,
\* exactly when its filename contains "..". So every read that passes the
\* listed name of such a file is rejected, and so is every read that names a
\* file whose name without the extension .md still contains "..". But when
\* the only ".." of the name is made of the last dot of the stem and the dot
\* of the extension (X..md), the request X. contains no "..", is normalized
\* to X..md and is resolved like any other name: it is not rejected, and
\* returns the bytes of the first file of that name.
C29_ReadsWithDotDotRejected ==
    /\ (IsFind /\ req.query = <<>>) =>
          \A f \in DottedFiles : SeqHas(ret.files, f)
    /\ IsRead =>
          /\ Contains(req.filename, DotDot) <=> RejectedAsTraversal
          /\ \A f \in DottedFiles :
                /\ (Names(req.filename, f) /\ ToLower(req.filename) = ToLower(FilepathBase(f)))
                      => RejectedAsTraversal
                /\ (Names(req.filename, f)
                      /\ Contains(SubSeq(FilepathBase(f), 1, Len(FilepathBase(f)) - 3), DotDot))
                      => RejectedAsTraversal
                /\ (Names(req.filename, f) /\ ~Contains(req.filename, DotDot)) =>
                      /\ ~resp.isError
                      /\ Names(req.filename, ret.found)
                      /\ resp.text = content[ret.found]

\* /p/a..b.md exists and a read of a..b is rejected without a look at the
\* filesystem
C29_Witness ==
    /\ IsRead
    /\ req.filename = << "a", ".", ".", "b" >>
    /\ FilepathJoin(RootP, NameADotDotBMd) \in DottedFiles
    /\ RejectedAsTraversal

\* A find lists /p/a..b.md
C29_WitnessFind ==
    /\ IsFind
    /\ req.query = <<>>
    /\ SeqHas(ret.files, FilepathJoin(RootP, NameADotDotBMd))

\* A read of a. returns the bytes of /p/a..md
C29_WitnessStemDot ==
    /\ IsRead
    /\ req.filename = << "a", "." >>
    /\ ret.found = FilepathJoin(RootP, NameADotDotMd)
    /\ resp.text = FileBytes(FilepathJoin(RootP, NameADotDotMd))

----------------------------------------------------------------------------
(* C30: checked under SpecConcFair *)

\* The accesses of log from position i up to the next os.Stat: the walk of
\* one configured root
RECURSIVE WalkFrom(_, _)
WalkFrom(log, i) ==
    IF i > Len(log) \/ log[i].op = "stat" THEN <<>>
    ELSE << log[i] >> \o WalkFrom(log, i + 1)

\* The callback was called without error at most once on each entry
VisitsOnce(walk) ==
    \A i, j \in 1..Len(walk) :
        (i # j /\ walk[i].op = "visit" /\ walk[j].op = "visit")
            => walk[i].path # walk[j].path

\* C30: every request terminates with a response: a handler that has
\* started reaches its response whatever the other goroutine does. During a
\* request each configured root is stat'ed once, in order; the walk of a
\* root visits each entry at most once, visits only entries of the
\* filesystem that are the root or below it, and so makes no more visits
\* than the filesystem has entries.
C30_EveryRequestTerminates ==
    /\ [](\A t \in Threads :
            LET log == calls[t].log
            IN  \A i \in 1..Len(log) :
                    log[i].op = "stat" =>
                        /\ VisitsOnce(WalkFrom(log, i + 1))
                        /\ Len(WalkFrom(log, i + 1)) <= Cardinality(files \cup dirs)
                        /\ \A k \in 1..Len(WalkFrom(log, i + 1)) :
                              LET v == WalkFrom(log, i + 1)[k].path
                              IN  /\ v \in files \cup dirs
                                  /\ v = log[i].path \/ Under(log[i].path, v))
    /\ [](\A t \in Threads :
            Len(SelectSeq(calls[t].log, LAMBDA e : e.op = "stat")) <= Len(config.Directories))
    /\ \A t \in Threads : (calls[t].pc = "run") ~> (calls[t].pc = "done")

\* /p/sub and /p are configured: a find has its response after it visited
\* /p/sub/ab.md once in the walk of each root
C30_Witness ==
    /\ config.Directories = << PSub, RootP >>
    /\ calls[1].pc = "done"
    /\ calls[1].op = "find"
    /\ Len(SelectSeq(calls[1].log, LAMBDA e : e.op = "stat")) = 2
    /\ Len(SelectSeq(calls[1].log,
                     LAMBDA e : e.op = "visit"
                                /\ e.path = FilepathJoin(PSub, NameAbMd))) = 2
    /\ calls[1].resp.result.count = 2
    /\ calls[2].pc = "run"

====
